---- MODULE Spec2Model ----
(***************************************************************************)
(* CouncilForge: the world economy engine (src/src/world/engine.py) driven *)
(* through its public methods apply_action and increment_turn.             *)
(* SimulationController.run (RunSpec, and RunFairSpec for termination),    *)
(* the functions of src/src/social (SocialSpec, BiasSpec) and the          *)
(* snapshots of get_view (ViewSpec) are specified in the same module.      *)
(*                                                                         *)
(* Strings that the code splits, lower-cases or compares (agent names and  *)
(* action targets) are tuples of one-character strings, so that            *)
(* str.split() and str.lower() are computed and not assumed.  Python's     *)
(* None is the tuple None below, which is no string.  The float modifiers  *)
(* 0.5, 1.0 and 1.5 are kept in tenths (5, 10, 15).                        *)
(*                                                                         *)
(* src/src/core/models.py in this tree is an older revision than the       *)
(* engine (it has no treasury, cost_modifiers or TurnEvent); WorldState,   *)
(* Action, Message and TurnEvent are modelled as engine.py constructs and  *)
(* uses them.                                                              *)
(***************************************************************************)
EXTENDS Integers, Sequences, FiniteSets, TLC

VARIABLES state, agents, ret, calls, run, seen, social

vars == <<state, agents, ret, calls, run, seen, social>>

----------------------------------------------------------------------------
(* Bounds of the model *)

\* calls made to the engine's public methods in one behaviour
MaxCalls == 3

\* calls made to the functions of the social layer in one behaviour
MaxSocialCalls == 3

----------------------------------------------------------------------------
(* Strings *)

None == <<"None">>

EmptyStr == <<>>
Blank == <<" ">>
S_null == <<"n", "u", "l", "l">>
S_everyone == <<"e", "v", "e", "r", "y", "o", "n", "e">>
S_anyone == <<"a", "n", "y", "o", "n", "e">>
S_world == <<"w", "o", "r", "l", "d">>
S_population == <<"p", "o", "p", "u", "l", "a", "t", "i", "o", "n">>
S_hi == <<"h", "i">>

AlX == <<"A", "l", " ", "X">>
AlY == <<"A", "l", " ", "Y">>
Bo == <<"B", "o">>
S_al == <<"a", "l">>

UpperCase == <<"A", "B", "C", "D", "E", "F", "G", "H", "I", "J", "K", "L", "M",
               "N", "O", "P", "Q", "R", "S", "T", "U", "V", "W", "X", "Y", "Z">>
LowerCase == <<"a", "b", "c", "d", "e", "f", "g", "h", "i", "j", "k", "l", "m",
               "n", "o", "p", "q", "r", "s", "t", "u", "v", "w", "x", "y", "z">>

\* str.lower()
lower(s) ==
    [i \in 1..Len(s) |->
        IF \E k \in 1..26 : UpperCase[k] = s[i]
        THEN LowerCase[CHOOSE k \in 1..26 : UpperCase[k] = s[i]]
        ELSE s[i]]

RECURSIVE TokenLen(_)
TokenLen(s) == IF s = <<>> \/ Head(s) = " " THEN 0 ELSE 1 + TokenLen(Tail(s))

\* str.split(): the maximal runs of non-blank characters
RECURSIVE split(_)
split(s) ==
    IF s = <<>> THEN <<>>
    ELSE IF Head(s) = " " THEN split(Tail(s))
    ELSE <<SubSeq(s, 1, TokenLen(s))>> \o split(SubSeq(s, TokenLen(s) + 1, Len(s)))

\* Python truthiness of an Optional[str]
Truthy(s) == s # None /\ s # EmptyStr

Max(a, b) == IF a >= b THEN a ELSE b

----------------------------------------------------------------------------
(* Configuration *)

\* WorldConfig: the five initial_* fields are unconstrained integers
WorldConfig ==
    {[initial_treasury |-> 4, initial_food |-> 4, initial_energy |-> 4,
      initial_infrastructure |-> 4, initial_morale |-> 4],
     [initial_treasury |-> -1, initial_food |-> 1, initial_energy |-> 3,
      initial_infrastructure |-> 0, initial_morale |-> 1],
     [initial_treasury |-> 0, initial_food |-> 0, initial_energy |-> 0,
      initial_infrastructure |-> 0, initial_morale |-> 520]}

\* a configuration that no terminal condition touches for three rounds
HealthyConfig ==
    [initial_treasury |-> 104, initial_food |-> 104, initial_energy |-> 104,
     initial_infrastructure |-> 104, initial_morale |-> 104]

\* config.personas: the names of the agents, in persona-list order
Personas == <<AlX, AlY, Bo>>

----------------------------------------------------------------------------
(* Actions proposed to the engine *)

ResourceActions ==
    {"improve_food", "improve_energy", "improve_infrastructure",
     "boost_morale", "generate_treasury"}

ActionType ==
    ResourceActions \cup {"support_agent", "oppose_agent", "send_message", "pass"}

Targets == {EmptyStr, Blank, S_everyone, S_world, S_population, AlX, AlY, Bo, S_al}

Messages == {None, EmptyStr, S_hi}

Action ==
    [type : ActionType \ {"send_message"}, target : Targets, message : {None}]
    \cup [type : {"send_message"}, target : Targets, message : Messages]

----------------------------------------------------------------------------
(* World *)

Resources == {"treasury", "food", "energy", "infrastructure", "morale"}

\* the text of a TurnEvent or of an error, with the values formatted into it
NoText ==
    [text |-> "", action |-> "", who |-> None, amount |-> 0, cost |-> 0,
     resource |-> "", held |-> 0, status |-> "", content |-> None]

\* variant without the clamping of the resources: T_C2 must tell it apart
_calculate_derived_metrics_unclamped(s) ==
    LET avg_resources ==
            (s.treasury + s.food + s.energy + s.infrastructure + s.morale) \div 5
    IN  [s EXCEPT !.crisis_level = Max(0, 100 - avg_resources)]

_calculate_derived_metrics(s) ==
    LET c == [s EXCEPT !.treasury = Max(0, s.treasury),
                       !.food = Max(0, s.food),
                       !.energy = Max(0, s.energy),
                       !.infrastructure = Max(0, s.infrastructure),
                       !.morale = Max(0, s.morale)]
        avg_resources ==
            (c.treasury + c.food + c.energy + c.infrastructure + c.morale) \div 5
    IN  [c EXCEPT !.crisis_level = Max(0, 100 - avg_resources)]

\* an empty dict
EmptyDict == [k \in {} |-> 0]

World(config) ==
    _calculate_derived_metrics(
        [treasury |-> config.initial_treasury,
         food |-> config.initial_food,
         energy |-> config.initial_energy,
         infrastructure |-> config.initial_infrastructure,
         morale |-> config.initial_morale,
         crisis_level |-> 0,
         turn |-> 0,
         cost_modifiers |-> EmptyDict,
         message_queue |-> <<>>])

\* variant charging 3 energy for generate_treasury: T_C6 must tell it apart
cost_map_cheap ==
    [improve_food |-> <<"energy", 3>>,
     improve_energy |-> <<"treasury", 3>>,
     improve_infrastructure |-> <<"treasury", 4>>,
     boost_morale |-> <<"food", 2>>,
     generate_treasury |-> <<"energy", 3>>]

cost_map ==
    [improve_food |-> <<"energy", 3>>,
     improve_energy |-> <<"treasury", 3>>,
     improve_infrastructure |-> <<"treasury", 4>>,
     boost_morale |-> <<"food", 2>>,
     generate_treasury |-> <<"energy", 4>>]

_can_afford_action(s, action, agent_name) ==
    IF action \notin DOMAIN cost_map
    THEN [can_afford |-> TRUE, cost_resource |-> "", cost_amount |-> 0,
          error_message |-> NoText]
    ELSE
        LET cost_resource == cost_map[action][1]
            base_cost == cost_map[action][2]
            actual_cost == base_cost
            current_amount == s[cost_resource]
            can_afford == current_amount >= actual_cost
        IN  IF ~can_afford
            THEN [can_afford |-> FALSE, cost_resource |-> cost_resource,
                  cost_amount |-> actual_cost,
                  error_message |->
                      [NoText EXCEPT !.text = "Cannot afford", !.action = action,
                                     !.cost = actual_cost,
                                     !.resource = cost_resource,
                                     !.held = current_amount]]
            ELSE [can_afford |-> TRUE, cost_resource |-> cost_resource,
                  cost_amount |-> actual_cost, error_message |-> NoText]

\* name.split()[0] raises IndexError when the name holds only blanks
IndexError == <<"IndexError">>

_normalize_agent_name(name) ==
    IF ~Truthy(name) THEN EmptyStr
    ELSE IF split(name) = <<>> THEN IndexError
    ELSE lower(split(name)[1])

\* every string the engine is handed as a name
Names == Targets \cup {None} \cup {Personas[i] : i \in 1..Len(Personas)}

\* _normalize_agent_name over Names, computed once
normalized == [name \in Names |-> _normalize_agent_name(name)]

\* the three results of is_valid_action: (True, ""), (False, error) and an exception
Valid == [is_valid |-> TRUE, raised |-> FALSE, error_msg |-> NoText]

Invalid(error_msg) == [is_valid |-> FALSE, raised |-> FALSE, error_msg |-> error_msg]

Raise == [is_valid |-> FALSE, raised |-> TRUE, error_msg |-> NoText]

\* is_valid_action, "1. Target Validation"
target_validation(action) ==
    IF action.target \in {None, EmptyStr, S_null, S_everyone, S_anyone}
    THEN Invalid([NoText EXCEPT !.text = "Invalid target", !.who = action.target])
    ELSE Valid

\* variant letting every resource action aim at "population": T_C9 must tell
\* it apart
resource_target_check_lenient(action) ==
    IF action.target \notin {S_world, S_population}
    THEN Invalid([NoText EXCEPT !.text = "Resource actions must target 'world'"])
    ELSE Valid

\* is_valid_action, the branches of the resource actions
resource_target_check(action) ==
    IF action.type \in {"improve_food", "improve_energy",
                        "improve_infrastructure", "generate_treasury"}
    THEN IF action.target # S_world
         THEN Invalid([NoText EXCEPT !.text = "Resource actions must target 'world'"])
         ELSE Valid
    ELSE IF action.target \notin {S_world, S_population}
         THEN Invalid([NoText EXCEPT
                          !.text = "boost_morale must target 'world' or 'population'"])
         ELSE Valid

\* is_valid_action, the branches of support_agent, oppose_agent and send_message
agent_target_check(action, agent_name, valid_agents) ==
    LET normalized_target == normalized[action.target]
        normalized_valid == {normalized[valid_agents[i]] : i \in 1..Len(valid_agents)}
    IN  IF normalized_target = IndexError \/ IndexError \in normalized_valid
        THEN Raise
        ELSE IF normalized_target \notin normalized_valid
        THEN Invalid([NoText EXCEPT !.text = "is not a valid agent",
                                    !.who = action.target])
        ELSE IF normalized[agent_name] = IndexError
        THEN Raise
        ELSE IF normalized[action.target] = normalized[agent_name]
        THEN Invalid([NoText EXCEPT
                         !.text = IF action.type = "send_message"
                                  THEN "Cannot send message to self"
                                  ELSE "Cannot target self"])
        ELSE IF action.type = "send_message" /\ ~Truthy(action.message)
        THEN Invalid([NoText EXCEPT !.text = "Message content required"])
        ELSE Valid

\* is_valid_action, "2. Cost Check"
cost_check(s, action, agent_name) ==
    LET afford == _can_afford_action(s, action.type, agent_name)
    IN  IF ~afford.can_afford THEN Invalid(afford.error_message) ELSE Valid

is_valid_action(s, action, agent_name, valid_agents) ==
    LET category ==
            IF action.type \in ResourceActions
            THEN resource_target_check(action)
            ELSE IF action.type \in {"support_agent", "oppose_agent", "send_message"}
            THEN agent_target_check(action, agent_name, valid_agents)
            ELSE IF action.type = "pass"
            THEN Valid
            ELSE Invalid([NoText EXCEPT !.text = "Unknown action type",
                                        !.action = action.type])
    IN  IF target_validation(action) # Valid THEN target_validation(action)
        ELSE IF category # Valid THEN category
        ELSE cost_check(s, action, agent_name)

\* variant rounding half up: T_C8 must tell it apart
int_rounds(tenths) == (tenths + 5) \div 10

\* int(): truncation toward zero, of a value held in tenths
int(tenths) == IF tenths >= 0 THEN tenths \div 10 ELSE -((-tenths) \div 10)

\* dict.get(key, default)
get(d, key, default) == IF key \in DOMAIN d THEN d[key] ELSE default

\* variant that leaves the key in place: T_C4 must tell it apart
pop_keeps(d, key) == d

\* the dict after dict.pop(key, default), and after del d[key] when key is in d
pop(d, key) == [k \in DOMAIN d \ {key} |-> d[k]]

\* variant that keeps the value a key already has: T_C39 must tell it apart
put_keeps_pending(d, key, value) ==
    [k \in DOMAIN d \cup {key} |-> IF k \in DOMAIN d THEN d[k] ELSE value]

\* the dict after d[key] = value
put(d, key, value) == [k \in DOMAIN d \cup {key} |-> IF k = key THEN value ELSE d[k]]

\* variant taking the last match of the list: T_C7 must tell it apart
first_match_last(valid_agents, normalized_target) ==
    LET hits == {i \in 1..Len(valid_agents) :
                    normalized[valid_agents[i]] = normalized_target}
    IN  IF hits = {} THEN None
        ELSE valid_agents[CHOOSE i \in hits : \A j \in hits : i >= j]

\* next((a for a in valid_agents if normalize(a) == normalized_target), None)
first_match(valid_agents, normalized_target) ==
    LET hits == {i \in 1..Len(valid_agents) :
                    normalized[valid_agents[i]] = normalized_target}
    IN  IF hits = {} THEN None
        ELSE valid_agents[CHOOSE i \in hits : \A j \in hits : i <= j]

\* the five resource branches of apply_action: what is paid, what is gained
branch ==
    [improve_food |-> [pays |-> "energy", gains |-> "food", base_output |-> 8],
     improve_energy |-> [pays |-> "treasury", gains |-> "energy", base_output |-> 8],
     improve_infrastructure |->
         [pays |-> "treasury", gains |-> "infrastructure", base_output |-> 8],
     boost_morale |-> [pays |-> "food", gains |-> "morale", base_output |-> 8],
     generate_treasury |-> [pays |-> "energy", gains |-> "treasury", base_output |-> 3]]

TurnEvent(message, visibility, actor, target) ==
    [message |-> message, visibility |-> visibility, actor |-> actor, target |-> target]

NoEvent == TurnEvent(NoText, "", None, None)

\* variant with sender and recipient the wrong way round: T_C12 must tell it
\* apart
Message_swapped(sender, recipient, content, turn_sent) ==
    [sender |-> recipient, recipient |-> sender, content |-> content,
     turn_sent |-> turn_sent]

Message(sender, recipient, content, turn_sent) ==
    [sender |-> sender, recipient |-> recipient, content |-> content,
     turn_sent |-> turn_sent]

\* variant that drops the actor's modifier on a rejection: T_C1 must tell it
\* apart
reject_clears(s, agent_name, error_msg) ==
    [success |-> FALSE, raised |-> FALSE,
     event |-> TurnEvent([error_msg EXCEPT !.status = "action failed"],
                         "public", agent_name, None),
     state |-> [s EXCEPT !.cost_modifiers = pop(@, agent_name)]]

\* apply_action, the return taken when is_valid_action says no
reject(s, agent_name, error_msg) ==
    [success |-> FALSE, raised |-> FALSE,
     event |-> TurnEvent([error_msg EXCEPT !.status = "action failed"],
                         "public", agent_name, None),
     state |-> s]

apply_action(s, agent_name, action, valid_agents) ==
    LET valid == is_valid_action(s, action, agent_name, valid_agents)
        afford == _can_afford_action(s, action.type, agent_name)
        normalized_target == normalized[action.target]
        target_agent == first_match(valid_agents, normalized_target)
        Finish(success, message, s1) ==
            [success |-> success, raised |-> FALSE,
             event |-> TurnEvent(message,
                                 IF action.type = "send_message" THEN "private"
                                 ELSE "public",
                                 agent_name,
                                 IF action.type = "send_message" THEN action.target
                                 ELSE None),
             state |-> _calculate_derived_metrics(s1)]
    IN  IF valid.raised
        THEN [success |-> FALSE, raised |-> TRUE, event |-> NoEvent, state |-> s]
        ELSE IF ~valid.is_valid
        THEN reject(s, agent_name, valid.error_msg)
        ELSE IF action.type \in DOMAIN branch
        THEN IF ~afford.can_afford
             THEN [success |-> FALSE, raised |-> FALSE,
                   event |-> TurnEvent(afford.error_message, "public", agent_name, None),
                   state |-> s]
             ELSE
                LET b == branch[action.type]
                    actual_cost == afford.cost_amount
                    paid == [s EXCEPT ![b.pays] = @ - actual_cost]
                    modifier == get(s.cost_modifiers, agent_name, 10)
                    actual_output == int(b.base_output * modifier)
                    gained == [paid EXCEPT ![b.gains] = @ + actual_output,
                                           !.cost_modifiers = pop(@, agent_name)]
                IN  Finish(TRUE,
                           [NoText EXCEPT !.text = "improved", !.action = action.type,
                                          !.who = agent_name,
                                          !.amount = actual_output,
                                          !.cost = actual_cost, !.resource = b.pays,
                                          !.status = IF modifier > 10 THEN "SUPPORTED"
                                                     ELSE IF modifier < 10 THEN "OPPOSED"
                                                     ELSE ""],
                           gained)
        ELSE IF action.type = "support_agent"
        THEN IF Truthy(target_agent)
             THEN Finish(TRUE,
                         [NoText EXCEPT !.text = "supported", !.action = action.type,
                                        !.who = target_agent],
                         [s EXCEPT !.cost_modifiers = put(@, target_agent, 15),
                                   !.morale = @ + 5])
             ELSE Finish(TRUE, NoText, s)
        ELSE IF action.type = "oppose_agent"
        THEN IF Truthy(target_agent)
             THEN Finish(TRUE,
                         [NoText EXCEPT !.text = "opposed", !.action = action.type,
                                        !.who = target_agent],
                         [s EXCEPT !.cost_modifiers = put(@, target_agent, 5),
                                   !.morale = @ - 3])
             ELSE Finish(TRUE, NoText, s)
        ELSE IF action.type = "send_message"
        THEN IF Truthy(action.message) /\ Truthy(action.target)
             THEN Finish(TRUE,
                         [NoText EXCEPT !.text = "sent a message to",
                                        !.action = action.type,
                                        !.who = action.target,
                                        !.content = action.message],
                         [s EXCEPT !.message_queue =
                             Append(@, Message(agent_name, action.target,
                                               action.message, s.turn))])
             ELSE Finish(FALSE,
                         [NoText EXCEPT !.text = "Message content or target missing"], s)
        ELSE IF action.type = "pass"
        THEN Finish(TRUE, [NoText EXCEPT !.text = "passed", !.action = action.type], s)
        ELSE Finish(FALSE,
                    [NoText EXCEPT !.text = "Unknown action type",
                                   !.action = action.type], s)

\* variant testing energy before food: T_C15 must tell it apart
check_terminal_state_energy_first(s) ==
    IF s.energy <= 0
    THEN [is_terminal |-> TRUE, reason |-> "Energy depleted"]
    ELSE IF s.food <= 0
    THEN [is_terminal |-> TRUE, reason |-> "Food supply exhausted"]
    ELSE IF s.treasury <= 0 /\ s.infrastructure < 20
    THEN [is_terminal |-> TRUE, reason |-> "Economic collapse"]
    ELSE IF s.morale <= 5
    THEN [is_terminal |-> TRUE, reason |-> "Morale critical"]
    ELSE [is_terminal |-> FALSE, reason |-> ""]

check_terminal_state(s) ==
    IF s.food <= 0
    THEN [is_terminal |-> TRUE, reason |-> "Food supply exhausted"]
    ELSE IF s.energy <= 0
    THEN [is_terminal |-> TRUE, reason |-> "Energy depleted"]
    ELSE IF s.treasury <= 0 /\ s.infrastructure < 20
    THEN [is_terminal |-> TRUE, reason |-> "Economic collapse"]
    ELSE IF s.morale <= 5
    THEN [is_terminal |-> TRUE, reason |-> "Morale critical"]
    ELSE [is_terminal |-> FALSE, reason |-> ""]

\* variant that does not recompute the derived metrics: T_C13 must tell it
\* apart
increment_turn_stale(s) ==
    [s EXCEPT !.turn = @ + 1,
              !.treasury = Max(0, @ - 2),
              !.food = Max(0, @ - 2),
              !.energy = Max(0, @ - 2),
              !.infrastructure = Max(0, @ - 2)]

\* variant in which morale decays too: T_C14 must tell it apart
increment_turn_decays_morale(s) ==
    _calculate_derived_metrics(
        [s EXCEPT !.turn = @ + 1,
                  !.treasury = Max(0, @ - 2),
                  !.food = Max(0, @ - 2),
                  !.energy = Max(0, @ - 2),
                  !.infrastructure = Max(0, @ - 2),
                  !.morale = Max(0, @ - 2)])

\* variant in which modifiers expire with the turn: T_C3 must tell it apart
increment_turn_expires(s) ==
    _calculate_derived_metrics(
        [s EXCEPT !.turn = @ + 1,
                  !.treasury = Max(0, @ - 2),
                  !.food = Max(0, @ - 2),
                  !.energy = Max(0, @ - 2),
                  !.infrastructure = Max(0, @ - 2),
                  !.cost_modifiers = EmptyDict])

\* variant that counts a round twice: T_C38 must tell it apart
increment_turn_twice(s) ==
    _calculate_derived_metrics(
        [s EXCEPT !.turn = @ + 2,
                  !.treasury = Max(0, @ - 2),
                  !.food = Max(0, @ - 2),
                  !.energy = Max(0, @ - 2),
                  !.infrastructure = Max(0, @ - 2)])

increment_turn(s) ==
    _calculate_derived_metrics(
        [s EXCEPT !.turn = @ + 1,
                  !.treasury = Max(0, @ - 2),
                  !.food = Max(0, @ - 2),
                  !.energy = Max(0, @ - 2),
                  !.infrastructure = Max(0, @ - 2)])

----------------------------------------------------------------------------
(* Relationships (src/src/social/relationship_engine.py).  A description   *)
(* is the tuple of the pieces of its f-string, a message text a tuple of   *)
(* characters as above.                                                    *)

Min(a, b) == IF a <= b THEN a ELSE b

S_friendly == <<"f", "r", "i", "e", "n", "d", "l", "y">>
S_hostile == <<"h", "o", "s", "t", "i", "l", "e">>
S_neutral == <<"n", "e", "u", "t", "r", "a", "l">>
S_thanks == <<"t", "h", "a", "n", "k", "s">>
S_liar == <<"l", "i", "a", "r">>

\* Relationship(): trust 0, resentment 0, an empty history
Relationship == [trust |-> 0, resentment |-> 0, history |-> <<>>]

RELATIONSHIP_DELTAS ==
    [support_agent |-> [trust |-> 10, resentment |-> -5],
     oppose_agent |-> [trust |-> -10, resentment |-> 10],
     negotiate |-> [trust |-> 5, resentment |-> 0],
     request_help_accepted |-> [trust |-> 10, resentment |-> 0],
     request_help_rejected |-> [trust |-> -5, resentment |-> 5],
     trade_successful |-> [trust |-> 7, resentment |-> -3],
     sabotage |-> [trust |-> -25, resentment |-> 20],
     send_message_neutral |-> [trust |-> 1, resentment |-> 0],
     send_message_friendly |-> [trust |-> 3, resentment |-> -1],
     send_message_hostile |-> [trust |-> -3, resentment |-> 3],
     form_alliance |-> [trust |-> 15, resentment |-> -5],
     denounce_agent |-> [trust |-> -15, resentment |-> 15],
     offer_concession |-> [trust |-> 8, resentment |-> -5],
     demand_concession |-> [trust |-> -5, resentment |-> 8],
     accuse_agent |-> [trust |-> -10, resentment |-> 10],
     offer_protection |-> [trust |-> 12, resentment |-> -2],
     spread_rumor |-> [trust |-> -8, resentment |-> 8],
     propose_policy |-> [trust |-> 2, resentment |-> 0]]

\* variant that logs the description of a kind it does not know: T_C23 must
\* tell it apart
update_relationship_logs_unknown(relationship, action_type, description) ==
    LET known == action_type \in DOMAIN RELATIONSHIP_DELTAS
        deltas == IF known THEN RELATIONSHIP_DELTAS[action_type]
                  ELSE [trust |-> 0, resentment |-> 0]
        appended == Append(relationship.history, description)
    IN  [trust |-> Max(-100, Min(100, relationship.trust + deltas.trust)),
         resentment |-> Max(-100, Min(100, relationship.resentment + deltas.resentment)),
         history |-> IF ~Truthy(description) THEN relationship.history
                     ELSE IF Len(appended) > 10 THEN Tail(appended)
                     ELSE appended]

\* variant that drops the newest entry of a full history: T_C25 must tell it
\* apart
update_relationship_drops_newest(relationship, action_type, description) ==
    IF action_type \notin DOMAIN RELATIONSHIP_DELTAS THEN relationship
    ELSE LET deltas == RELATIONSHIP_DELTAS[action_type]
             appended == Append(relationship.history, description)
         IN  [trust |-> Max(-100, Min(100, relationship.trust + deltas.trust)),
              resentment |->
                  Max(-100, Min(100, relationship.resentment + deltas.resentment)),
              history |-> IF ~Truthy(description) THEN relationship.history
                          ELSE IF Len(appended) > 10 THEN SubSeq(appended, 1, 10)
                          ELSE appended]

\* an action kind outside the table returns the relationship as it is; else
\* the deltas are added and clamped to [-100, 100], and a description that is
\* given is appended to the history, whose oldest entry goes once there are
\* more than 10
update_relationship(relationship, action_type, description) ==
    IF action_type \notin DOMAIN RELATIONSHIP_DELTAS THEN relationship
    ELSE LET deltas == RELATIONSHIP_DELTAS[action_type]
             appended == Append(relationship.history, description)
         IN  [trust |-> Max(-100, Min(100, relationship.trust + deltas.trust)),
              resentment |->
                  Max(-100, Min(100, relationship.resentment + deltas.resentment)),
              history |-> IF ~Truthy(description) THEN relationship.history
                          ELSE IF Len(appended) > 10 THEN Tail(appended)
                          ELSE appended]

\* action_map.get(tone, "send_message_neutral")
action_map(tone) ==
    IF tone = S_friendly THEN "send_message_friendly"
    ELSE IF tone = S_hostile THEN "send_message_hostile"
    ELSE "send_message_neutral"

apply_message_effects(relationship, tone, text) ==
    LET action_type == action_map(tone)
        description == IF Truthy(text)
                       THEN <<"Received ", tone, " message: '", text, "'">>
                       ELSE <<"Received ", tone, " message">>
    IN  update_relationship(relationship, action_type, description)

----------------------------------------------------------------------------
(* The tone of a message (src/src/social/message_parser.py) *)

hostile_keywords ==
    {<<"b", "e", "t", "r", "a", "y">>,
     <<"e", "n", "e", "m", "y">>,
     <<"a", "t", "t", "a", "c", "k">>,
     <<"d", "e", "s", "t", "r", "o", "y">>,
     <<"f", "o", "o", "l">>,
     <<"l", "i", "a", "r">>,
     <<"h", "a", "t", "e">>,
     <<"s", "t", "u", "p", "i", "d">>,
     <<"u", "s", "e", "l", "e", "s", "s">>,
     <<"w", "e", "a", "k">>,
     <<"t", "h", "r", "e", "a", "t">>,
     <<"d", "e", "m", "a", "n", "d">>,
     <<"o", "r", " ", "e", "l", "s", "e">>,
     <<"c", "r", "u", "s", "h">>,
     <<"d", "i", "s", "a", "s", "t", "e", "r">>,
     <<"h", "o", "a", "r", "d">>,
     <<"g", "r", "e", "e", "d">>,
     <<"s", "u", "f", "f", "e", "r", "i", "n", "g">>,
     <<"o", "p", "p", "r", "e", "s", "s">>}

friendly_keywords ==
    {<<"f", "r", "i", "e", "n", "d">>,
     <<"h", "e", "l", "p">>,
     <<"s", "u", "p", "p", "o", "r", "t">>,
     <<"t", "h", "a", "n", "k", "s">>,
     <<"t", "h", "a", "n", "k", " ", "y", "o", "u">>,
     <<"a", "p", "p", "r", "e", "c", "i", "a", "t", "e">>,
     <<"g", "o", "o", "d">>,
     <<"g", "r", "e", "a", "t">>,
     <<"a", "l", "l", "y">>,
     <<"t", "o", "g", "e", "t", "h", "e", "r">>,
     <<"c", "o", "o", "p", "e", "r", "a", "t", "e">>,
     <<"p", "e", "a", "c", "e">>,
     <<"l", "o", "v", "e">>,
     <<"p", "l", "e", "a", "s", "e">>,
     <<"k", "i", "n", "d">>}

\* word in text
Contains(text, word) ==
    \E i \in 1..Len(text) :
        /\ i + Len(word) - 1 <= Len(text)
        /\ SubSeq(text, i, i + Len(word) - 1) = word

\* "friendly", "hostile" or "neutral": hostile when more than half of a text
\* longer than 5 is upper case or a hostile keyword occurs in it, else
\* friendly when a friendly keyword occurs
parse_message_tone(text) ==
    LET text_lower == lower(text)
        caps_count == Cardinality({i \in 1..Len(text) :
                                      \E k \in 1..26 : UpperCase[k] = text[i]})
    IN  IF Len(text) > 5 /\ 2 * caps_count > Len(text) THEN S_hostile
        ELSE IF \E word \in hostile_keywords : Contains(text_lower, word)
        THEN S_hostile
        ELSE IF \E word \in friendly_keywords : Contains(text_lower, word)
        THEN S_friendly
        ELSE S_neutral

----------------------------------------------------------------------------
(* Emotions (src/src/social/emotion_engine.py).  The scalars are floats    *)
(* that only ever take whole values; they are kept as integers.            *)

MIN_EMOTION == -50

MAX_EMOTION == 50

\* variant that clamps to [-100, 100]: T_C26 must tell it apart
normalize_emotion_wide(value) == Max(2 * MIN_EMOTION, Min(2 * MAX_EMOTION, value))

normalize_emotion(value) == Max(MIN_EMOTION, Min(MAX_EMOTION, value))

get_default_emotions ==
    [trust |-> 0, resentment |-> 0, admiration |-> 0, fear |-> 0,
     ambition |-> 0, insecurity |-> 0]

NoDelta == [trust |-> 0, resentment |-> 0, admiration |-> 0, fear |-> 0]

\* the deltas of the kinds that move the one acted upon
TargetDeltas ==
    [support_agent |->
         [trust |-> 5, resentment |-> -2, admiration |-> 1, fear |-> 0],
     oppose_agent |->
         [trust |-> -5, resentment |-> 5, admiration |-> 0, fear |-> 1],
     sabotage |->
         [trust |-> -10, resentment |-> 15, admiration |-> 0, fear |-> 5],
     negotiate |->
         [trust |-> 2, resentment |-> 0, admiration |-> 1, fear |-> 0],
     denounce_agent |->
         [trust |-> -5, resentment |-> 8, admiration |-> 0, fear |-> 0],
     form_alliance |->
         [trust |-> 10, resentment |-> 0, admiration |-> 2, fear |-> 0],
     offer_concession |->
         [trust |-> 5, resentment |-> -5, admiration |-> 0, fear |-> 0],
     demand_concession |->
         [trust |-> 0, resentment |-> 5, admiration |-> 0, fear |-> 2],
     accuse_agent |->
         [trust |-> -3, resentment |-> 6, admiration |-> 0, fear |-> 0],
     offer_protection |->
         [trust |-> 8, resentment |-> 0, admiration |-> 3, fear |-> 0],
     spread_rumor |->
         [trust |-> -4, resentment |-> 4, admiration |-> 0, fear |-> 0]]

\* variant that moves the onlooker as it moves the target: T_C27 must tell it
\* apart
emotion_deltas_untargeted(action_type, is_target) ==
    IF action_type = "consume_resource" THEN [NoDelta EXCEPT !.resentment = 1]
    ELSE IF action_type \in DOMAIN TargetDeltas THEN TargetDeltas[action_type]
    ELSE NoDelta

\* trust_delta, resentment_delta, admiration_delta and fear_delta at the end
\* of the if/elif chain
emotion_deltas(action_type, is_target) ==
    IF action_type = "consume_resource" THEN [NoDelta EXCEPT !.resentment = 1]
    ELSE IF action_type \in DOMAIN TargetDeltas /\ is_target
    THEN TargetDeltas[action_type]
    ELSE NoDelta

update_emotions(current_emotions, action_type, is_target) ==
    LET deltas == emotion_deltas(action_type, is_target)
        moved == {"trust", "resentment", "admiration", "fear"}
    IN  [k \in DOMAIN current_emotions \cup moved |->
            IF k \in moved
            THEN normalize_emotion(get(current_emotions, k, 0) + deltas[k])
            ELSE current_emotions[k]]

----------------------------------------------------------------------------
(* Interpersonal goals (src/src/social/interpersonal_goals.py) *)

get_default_goals ==
    [ally_with |-> None, undermine |-> None, gain_influence_over |-> None,
     seek_approval_from |-> None]

\* variant with one threshold, clearing as soon as the quantity is not above
\* high: T_C28 must tell it apart
hysteresis_single_threshold(slot, target_name, quantity, high, low) ==
    IF quantity > high THEN target_name
    ELSE IF slot = target_name THEN None
    ELSE slot

\* variant that clears the slot whoever it names: T_C29 must tell it apart
hysteresis_clears_any(slot, target_name, quantity, high, low) ==
    IF quantity > high THEN target_name
    ELSE IF quantity <= low THEN None
    ELSE slot

\* variant that keeps the occupant of a taken slot: T_C30 must tell it apart
hysteresis_keeps_occupant(slot, target_name, quantity, high, low) ==
    IF quantity > high /\ slot \in {None, target_name} THEN target_name
    ELSE IF slot = target_name /\ quantity <= low THEN None
    ELSE slot

\* the rule of ally_with, undermine and seek_approval_from: the slot after
\* target_name has been evaluated with the quantity that drives it
hysteresis(slot, target_name, quantity, high, low) ==
    IF quantity > high THEN target_name
    ELSE IF slot = target_name /\ quantity <= low THEN None
    ELSE slot

\* variant that sets gain_influence_over only toward a trusted counterpart
\* and clears it only when both conditions have reversed: T_C31 must tell it
\* apart
update_goals_influence_by_trust(current_goals, emotions, target_name, world_stability, ambition) ==
    LET trust == get(emotions, "trust", 0)
        resentment == get(emotions, "resentment", 0)
        admiration == get(emotions, "admiration", 0)
    IN  [ally_with |-> hysteresis(current_goals.ally_with, target_name, trust, 15, 10),
         undermine |->
             hysteresis(current_goals.undermine, target_name, resentment, 15, 10),
         seek_approval_from |->
             hysteresis(current_goals.seek_approval_from, target_name, admiration, 10, 5),
         gain_influence_over |->
             IF ambition > 10 /\ world_stability < 50 /\ trust > 15 THEN target_name
             ELSE IF current_goals.gain_influence_over = target_name
                     /\ (ambition <= 10 /\ world_stability >= 50)
             THEN None
             ELSE current_goals.gain_influence_over]

update_goals(current_goals, emotions, target_name, world_stability, ambition) ==
    LET trust == get(emotions, "trust", 0)
        resentment == get(emotions, "resentment", 0)
        admiration == get(emotions, "admiration", 0)
    IN  [ally_with |-> hysteresis(current_goals.ally_with, target_name, trust, 15, 10),
         undermine |->
             hysteresis(current_goals.undermine, target_name, resentment, 15, 10),
         seek_approval_from |->
             hysteresis(current_goals.seek_approval_from, target_name, admiration, 10, 5),
         gain_influence_over |->
             IF ambition > 10 /\ world_stability < 50 THEN target_name
             ELSE IF current_goals.gain_influence_over = target_name
                     /\ (ambition <= 10 \/ world_stability >= 50)
             THEN None
             ELSE current_goals.gain_influence_over]

----------------------------------------------------------------------------
(* The engine driven through its public methods.  ret is what the last call *)
(* returned; calls counts the calls made.  run holds the locals of          *)
(* SimulationController.run and the agents' inboxes, seen what has been     *)
(* observed of the run so far; neither changes while no run is under way.   *)

Return(op, success, raised, event) ==
    [op |-> op, success |-> success, raised |-> raised, event |-> event]

\* no run under way
NoRun ==
    [pc |-> "idle", max_turns |-> 0, i |-> 0, turn_passes |-> 0,
     consecutive_passes |-> 0, messages_received |-> <<>>, relationships |-> <<>>,
     current_turn_targeting |-> <<>>]

\* the fields of WorldState that hold a container object (a dict, a list)
Containers == {"cost_modifiers", "message_queue"}

\* BaseModel.model_copy: a new WorldState object whose fields are bound to the
\* values of the original; without deep=True the copy is shallow, so a field
\* that holds a container is bound to the SAME dict or list object as the
\* original, and only a deep copy gets containers of its own
model_copy(s, deep) ==
    [taken |-> TRUE, fields |-> s, shared |-> IF deep THEN {} ELSE Containers]

\* "Returns a read-only view of the world state"
get_view(s) == model_copy(s, FALSE)

\* what a reader of the snapshot finds in it while the world is in state s:
\* its own values, and for a shared container the content the one object has
\* now (the engine changes both containers in place: del, pop, item
\* assignment, append)
shown(view, s) ==
    [field \in DOMAIN view.fields |->
        IF field \in view.shared THEN s[field] ELSE view.fields[field]]

\* no snapshot taken yet
NoView ==
    [taken |-> FALSE,
     fields |-> [treasury |-> 0, food |-> 0, energy |-> 0, infrastructure |-> 0,
                 morale |-> 0, crisis_level |-> 0, turn |-> 0,
                 cost_modifiers |-> EmptyDict, message_queue |-> <<>>],
     shared |-> {}]

\* nothing observed yet
NoSeen ==
    [rounds |-> 0, acted |-> <<>>, all_pass_now |-> TRUE, all_pass_prev |-> FALSE,
     reason |-> "", view |-> NoView]

\* the arguments of a call of the social layer, before any call
NoCall ==
    [op |-> "", action_type |-> "", description |-> None, tone |-> None,
     text |-> None, is_target |-> FALSE, current_goals |-> get_default_goals,
     emotions |-> get_default_emotions, target_name |-> None,
     world_stability |-> 0, ambition |-> 0]

\* the social layer before anything has been called on it
NoSocial ==
    [pc |-> "idle", calls |-> 0, relationship |-> Relationship,
     emotions |-> get_default_emotions, goals |-> get_default_goals,
     last |-> NoCall]

Init ==
    /\ \E config \in WorldConfig : state = World(config)
    /\ agents = Personas
    /\ ret = Return("World", TRUE, FALSE, NoEvent)
    /\ calls = 0
    /\ run = NoRun
    /\ seen = NoSeen
    /\ social = NoSocial

ApplyAction(agent_name, action) ==
    /\ calls < MaxCalls
    /\ LET r == apply_action(state, agent_name, action, agents)
       IN  /\ state' = r.state
           /\ ret' = Return("apply_action", r.success, r.raised, r.event)
    /\ calls' = calls + 1
    /\ UNCHANGED <<agents, run, seen, social>>

IncrementTurn ==
    /\ calls < MaxCalls
    /\ state' = increment_turn(state)
    /\ ret' = Return("increment_turn", TRUE, FALSE, NoEvent)
    /\ calls' = calls + 1
    /\ UNCHANGED <<agents, run, seen, social>>

\* check_terminal_state returns (is_terminal, reason): ret carries them as
\* success and as the text of the event
CheckTerminalState ==
    /\ calls < MaxCalls
    /\ LET r == check_terminal_state(state)
       IN  ret' = Return("check_terminal_state", r.is_terminal, FALSE,
                         TurnEvent([NoText EXCEPT !.text = r.reason], "", None, None))
    /\ calls' = calls + 1
    /\ UNCHANGED <<state, agents, run, seen, social>>

Next ==
    \/ \E i \in 1..Len(agents), action \in Action : ApplyAction(agents[i], action)
    \/ IncrementTurn
    \/ CheckTerminalState

Spec == Init /\ [][Next]_vars

----------------------------------------------------------------------------
(* SimulationController.run.  The proposer (LLMAgent.decide with the LLM    *)
(* behind it) is an input: each agent's action is any of Proposals.         *)

\* config.simulation.max_turns
MaxTurns == {0, 1, 2, 3}

S_BoBracketed == <<"[", "B", "o", "]">>
S_underscore == <<"_">>

\* config.simulation.llm_retries
llm_retries == 3

\* Action(type=ActionType.PASS, target="world", reason="LLM failure")
DefaultPass ==
    [type |-> "pass", target |-> S_world, message |-> None, reason |-> "LLM failure"]

\* the actions the language model answers with
Answers ==
    {[type |-> "pass", target |-> S_world, message |-> None, reason |-> "answered"],
     [type |-> "boost_morale", target |-> S_world, message |-> None,
      reason |-> "answered"],
     [type |-> "support_agent", target |-> S_BoBracketed, message |-> None,
      reason |-> "answered"],
     [type |-> "oppose_agent", target |-> S_al, message |-> None, reason |-> "answered"],
     [type |-> "oppose_agent", target |-> S_underscore, message |-> None,
      reason |-> "answered"],
     [type |-> "send_message", target |-> AlY, message |-> S_thanks,
      reason |-> "answered"],
     [type |-> "send_message", target |-> S_al, message |-> S_hi, reason |-> "answered"]}

\* what the proposer may return: an answer, or the default pass of a failed
\* call
Proposals == Answers \cup {DefaultPass}

\* one attempt of the call: an answer that parses into an Action, or an
\* exception (no connection, no JSON, no valid Action)
Parsed(action) == [ok |-> TRUE, action |-> action]

Raised == [ok |-> FALSE, action |-> DefaultPass]

\* what the provider does attempt after attempt, were it asked that often
Attempts ==
    {<<Parsed(action)>> : action \in Answers}
    \cup {<<Raised, Raised,
            Parsed([type |-> "boost_morale", target |-> S_world, message |-> None,
                    reason |-> "answered"])>>,
          <<Raised, Raised, Raised>>,
          <<Raised, Raised, Raised,
            Parsed([type |-> "boost_morale", target |-> S_world, message |-> None,
                    reason |-> "answered"])>>}

\* variant that tries once more than llm_retries: T_C32 must tell it apart
generate_action_one_more(attempts) ==
    LET tried == {k \in 1..Len(attempts) : k <= llm_retries + 1 /\ attempts[k].ok}
    IN  IF tried = {} THEN DefaultPass
        ELSE attempts[CHOOSE k \in tried : \A j \in tried : k <= j].action

\* LLMClient.generate_action: the Action of the first attempt, of at most
\* llm_retries, that does not raise; the default pass when there is none
generate_action(attempts) ==
    LET tried == {k \in 1..Len(attempts) : k <= llm_retries /\ attempts[k].ok}
    IN  IF tried = {} THEN DefaultPass
        ELSE attempts[CHOOSE k \in tried : \A j \in tried : k <= j].action

\* LLMAgent.decide: what generate_action returns; generate_action catches
\* every exception of an attempt, so that the except branch of decide, which
\* returns a pass on "world" as well, is not taken for a failed call
decide(attempts) == generate_action(attempts)

\* the events of current_turn_targeting that name the agent as their target
targeting_me(current_turn_targeting, persona_name) ==
    SelectSeq(current_turn_targeting, LAMBDA event : event.target = persona_name)

\* "Track social actions for subsequent agents in THIS turn", which comes
\* before the action is applied: success is not looked at
track(current_turn_targeting, persona_name, action, success) ==
    IF action.type \in {"support_agent", "oppose_agent", "send_message"}
    THEN Append(current_turn_targeting,
                [actor |-> persona_name, type |-> action.type,
                 target |-> action.target, reason |-> action.reason])
    ELSE current_turn_targeting

\* target.replace('[', '').replace(']', '').replace('_', ' ')
sanitize(target) ==
    LET kept == SelectSeq(target, LAMBDA c : c \notin {"[", "]"})
    IN  [k \in 1..Len(kept) |-> IF kept[k] = "_" THEN " " ELSE kept[k]]

\* variant that matches on the first word only: T_C20 must tell it apart
find_recipient_first_word(recipient, agent_list) ==
    LET partial == {k \in 1..Len(agent_list) :
                       lower(split(agent_list[k])[1]) = lower(split(recipient)[1])}
    IN  IF split(recipient) = <<>> THEN -1
        ELSE IF partial # {} THEN CHOOSE k \in partial : \A j \in partial : k <= j
        ELSE 0

\* variant without the partial match: T_C40 must tell it apart
find_recipient_exact(recipient, agent_list) ==
    LET exact == {k \in 1..Len(agent_list) : agent_list[k] = recipient}
    IN  IF exact # {} THEN CHOOSE k \in exact : \A j \in exact : k >= j
        ELSE IF split(recipient) = <<>> THEN -1
        ELSE 0

\* the agent a queued message goes to, as an index of the agent list: the
\* agent of that name, else the first whose first word matches; 0 when none,
\* -1 when recipient.split()[0] raises
find_recipient(recipient, agent_list) ==
    LET exact == {k \in 1..Len(agent_list) : agent_list[k] = recipient}
        partial == {k \in 1..Len(agent_list) :
                       lower(split(agent_list[k])[1]) = lower(split(recipient)[1])}
    IN  IF exact # {} THEN CHOOSE k \in exact : \A j \in exact : k >= j
        ELSE IF split(recipient) = <<>> THEN -1
        ELSE IF partial # {} THEN CHOOSE k \in partial : \A j \in partial : k <= j
        ELSE 0

\* "0. Distribute Messages": the inboxes after the queue has been handed out
RECURSIVE deliver(_, _, _)
deliver(queue, boxes, agent_list) ==
    IF queue = <<>> THEN boxes
    ELSE LET msg == Head(queue)
             k == find_recipient(msg.recipient, agent_list)
         IN  IF k = -1 THEN IndexError
             ELSE deliver(Tail(queue),
                          IF k = 0 THEN boxes
                          ELSE [boxes EXCEPT
                                   ![k] = Append(@, [sender |-> msg.sender,
                                                     content |-> msg.content])],
                          agent_list)

\* LLMAgent.process_action: the relationships of the agent named persona_name
\* after it has seen actor_name's action
process_action(relationships, persona_name, action, actor_name) ==
    IF actor_name = persona_name THEN relationships
    ELSE put(relationships, actor_name,
             update_relationship(get(relationships, actor_name, Relationship),
                                 action.type, <<"Turn action: ", action.type>>))

\* variant in which the actor sees its own action too: T_C21 must tell it
\* apart
broadcast_to_all(ledgers, agent_list, action, actor_name) ==
    [k \in 1..Len(agent_list) |->
        put(ledgers[k], actor_name,
            update_relationship(get(ledgers[k], actor_name, Relationship),
                                action.type, <<"Turn action: ", action.type>>))]

\* "4. Broadcast Action to other agents": every agent's relationships after
\* process_action
broadcast(ledgers, agent_list, action, actor_name) ==
    [k \in 1..Len(agent_list) |->
        process_action(ledgers[k], agent_list[k], action, actor_name)]

\* LLMAgent.receive_message: the relationships after the message has come in;
\* its content is what apply_message_effects gets as tone
receive_message(relationships, message) ==
    put(relationships, message.sender,
        apply_message_effects(get(relationships, message.sender, Relationship),
                              message.content, None))

\* "0. Distribute Messages": the relationships after the queue has been
\* handed out
RECURSIVE deliver_effects(_, _, _)
deliver_effects(queue, ledgers, agent_list) ==
    IF queue = <<>> THEN ledgers
    ELSE LET msg == Head(queue)
             k == find_recipient(msg.recipient, agent_list)
         IN  IF k = -1 THEN IndexError
             ELSE deliver_effects(Tail(queue),
                                  IF k = 0 THEN ledgers
                                  ELSE [ledgers EXCEPT ![k] = receive_message(@, msg)],
                                  agent_list)

\* variant that runs one round more: T_C18 must tell it apart
loop_condition_inclusive(s, max_turns) == s.turn <= max_turns

\* while self.world.state.turn < max_turns
loop_condition(s, max_turns) == s.turn < max_turns

\* variant that advances the turn before it looks for a terminal state: T_C17
\* must tell it apart
end_of_round_decays_first(s, r, agents_count) ==
    LET consecutive_passes ==
            IF r.turn_passes = agents_count THEN r.consecutive_passes + 1 ELSE 0
        decayed == increment_turn(s)
    IN  IF consecutive_passes >= 2
        THEN [state |-> s, called |-> "",
              run |-> [r EXCEPT !.pc = "break_passes",
                                !.consecutive_passes = consecutive_passes]]
        ELSE IF check_terminal_state(decayed).is_terminal
        THEN [state |-> decayed, called |-> "check_terminal_state",
              run |-> [r EXCEPT !.pc = "break_terminal",
                                !.consecutive_passes = consecutive_passes]]
        ELSE [state |-> decayed, called |-> "increment_turn",
              run |-> [r EXCEPT !.pc = "while",
                                !.consecutive_passes = consecutive_passes]]

\* variant that never puts the count of all-pass rounds back to 0: T_C19 must
\* tell it apart
end_of_round_no_reset(s, r, agents_count) ==
    LET consecutive_passes ==
            IF r.turn_passes = agents_count THEN r.consecutive_passes + 1
            ELSE r.consecutive_passes
    IN  IF consecutive_passes >= 2
        THEN [state |-> s, called |-> "",
              run |-> [r EXCEPT !.pc = "break_passes",
                                !.consecutive_passes = consecutive_passes]]
        ELSE IF check_terminal_state(s).is_terminal
        THEN [state |-> s, called |-> "check_terminal_state",
              run |-> [r EXCEPT !.pc = "break_terminal",
                                !.consecutive_passes = consecutive_passes]]
        ELSE [state |-> increment_turn(s), called |-> "increment_turn",
              run |-> [r EXCEPT !.pc = "while",
                                !.consecutive_passes = consecutive_passes]]

\* the end of a round, from the pass count to increment_turn
end_of_round(s, r, agents_count) ==
    LET consecutive_passes ==
            IF r.turn_passes = agents_count THEN r.consecutive_passes + 1 ELSE 0
        terminal == check_terminal_state(s)
    IN  IF consecutive_passes >= 2
        THEN [state |-> s, called |-> "",
              run |-> [r EXCEPT !.pc = "break_passes",
                                !.consecutive_passes = consecutive_passes]]
        ELSE IF terminal.is_terminal
        THEN [state |-> s, called |-> "check_terminal_state",
              run |-> [r EXCEPT !.pc = "break_terminal",
                                !.consecutive_passes = consecutive_passes]]
        ELSE [state |-> increment_turn(s), called |-> "increment_turn",
              run |-> [r EXCEPT !.pc = "while",
                                !.consecutive_passes = consecutive_passes]]

RunInit ==
    /\ \E config \in WorldConfig \cup {HealthyConfig} : state = World(config)
    /\ agents = Personas
    /\ ret = Return("World", TRUE, FALSE, NoEvent)
    /\ calls = 0
    /\ \E max_turns \in MaxTurns :
           run = [pc |-> "while", max_turns |-> max_turns, i |-> 0,
                  turn_passes |-> 0, consecutive_passes |-> 0,
                  messages_received |-> [k \in 1..Len(Personas) |-> <<>>],
                  relationships |-> [k \in 1..Len(Personas) |-> EmptyDict],
                  current_turn_targeting |-> <<>>]
    /\ seen = NoSeen
    /\ social = NoSocial

\* the loop is entered: the queue is delivered and cleared, the round begins
StartRound ==
    /\ run.pc = "while"
    /\ loop_condition(state, run.max_turns)
    /\ LET boxes == deliver(state.message_queue, run.messages_received, agents)
       IN  IF boxes = IndexError
           THEN /\ run' = [run EXCEPT !.pc = "raised"]
                /\ UNCHANGED state
           ELSE /\ run' = [run EXCEPT !.pc = "for", !.i = 1, !.turn_passes = 0,
                                      !.messages_received = boxes,
                                      !.current_turn_targeting = <<>>,
                                      !.relationships =
                                          deliver_effects(state.message_queue, @,
                                                          agents)]
                /\ state' = [state EXCEPT !.message_queue = <<>>]
    /\ seen' = [seen EXCEPT !.rounds = @ + 1, !.acted = <<>>,
                            !.all_pass_now = TRUE, !.all_pass_prev = seen.all_pass_now
                                                       /\ seen.rounds > 0]
    /\ UNCHANGED <<agents, ret, calls, social>>

\* the loop is left because turn has reached max_turns
Finish ==
    /\ run.pc = "while"
    /\ ~loop_condition(state, run.max_turns)
    /\ run' = [run EXCEPT !.pc = "exit_max_turns"]
    /\ UNCHANGED <<state, agents, ret, calls, seen, social>>

\* agent i decides (its inbox is read and cleared), the target is sanitised,
\* a social action tracked, the action applied and a pass counted; seen.reason
\* is the reason the agent's action came with
AgentActs(proposal) ==
    /\ run.pc = "for"
    /\ run.i <= Len(agents)
    /\ LET action == IF Truthy(proposal.target)
                     THEN [proposal EXCEPT !.target = sanitize(@)]
                     ELSE proposal
           r == apply_action(state, agents[run.i], action, agents)
           read == [run EXCEPT !.messages_received[run.i] = <<>>,
                               !.current_turn_targeting =
                                   track(@, agents[run.i], action, r.success),
                               !.relationships =
                                   IF r.success
                                   THEN broadcast(@, agents, action, agents[run.i])
                                   ELSE @]
       IN  /\ state' = r.state
           /\ ret' = Return("apply_action", r.success, r.raised, r.event)
           /\ run' = IF r.raised
                     THEN [read EXCEPT !.pc = "raised"]
                     ELSE [read EXCEPT !.i = @ + 1,
                                       !.turn_passes =
                                           IF action.type = "pass" THEN @ + 1 ELSE @]
    /\ seen' = [seen EXCEPT !.acted = Append(@, agents[run.i]),
                            !.all_pass_now = @ /\ proposal.type = "pass",
                            !.reason = proposal.reason]
    /\ UNCHANGED <<agents, calls, social>>

\* every agent has acted: passes are counted, the terminal state is checked
\* and the turn advanced
EndRound ==
    /\ run.pc = "for"
    /\ run.i > Len(agents)
    /\ LET e == end_of_round(state, run, Len(agents))
           terminal == check_terminal_state(state)
       IN  /\ state' = e.state
           /\ run' = e.run
           /\ ret' = IF e.called = "check_terminal_state"
                     THEN Return("check_terminal_state", terminal.is_terminal, FALSE,
                                 TurnEvent([NoText EXCEPT !.text = terminal.reason],
                                           "", None, None))
                     ELSE IF e.called = "increment_turn"
                     THEN Return("increment_turn", TRUE, FALSE, NoEvent)
                     ELSE ret
    /\ UNCHANGED <<agents, calls, seen, social>>

RunNext ==
    \/ StartRound
    \/ Finish
    \/ \E attempts \in Attempts : AgentActs(decide(attempts))
    \/ EndRound

RunSpec == RunInit /\ [][RunNext]_vars

----------------------------------------------------------------------------
(* The functions of the social layer, called on one Relationship, one       *)
(* emotion vector or one goal dictionary.  social.last holds the arguments *)
(* of the last call.                                                        *)

\* the relationship after n observed actions of one kind (LLMAgent.process_action)
RECURSIVE observe(_, _, _)
observe(relationship, action_type, n) ==
    IF n = 0 THEN relationship
    ELSE observe(update_relationship(relationship, action_type,
                                     <<"Turn action: ", action_type>>),
                 action_type, n - 1)

\* the emotions after n actions of one kind aimed at their owner
RECURSIVE felt(_, _, _)
felt(emotions, action_type, n) ==
    IF n = 0 THEN emotions
    ELSE felt(update_emotions(emotions, action_type, TRUE), action_type, n - 1)

\* relationships a run of observations leads to
StartRelationships ==
    {observe(Relationship, action_type, n) :
         action_type \in {"support_agent", "sabotage"}, n \in {0, 4, 9, 12}}

\* emotions a run of actions leads to
StartEmotions ==
    {felt(get_default_emotions, action_type, n) :
         action_type \in {"oppose_agent", "offer_concession", "sabotage",
                          "offer_protection"},
         n \in {0, 4, 9, 15}}

\* the arguments the calls are made with
RelationshipKinds == {"support_agent", "sabotage", "pass"}

Descriptions == {None, EmptyStr, <<"note">>}

Tones == {S_friendly, S_hostile, S_thanks}

Texts == {None, S_hi}

EmotionKinds == DOMAIN TargetDeltas \cup {"consume_resource", "pass"}

GoalEmotions ==
    {[trust |-> q, resentment |-> 0, admiration |-> 0] : q \in {10, 11, 15, 16}}
    \cup {[trust |-> 0, resentment |-> q, admiration |-> 0] : q \in {10, 11, 15, 16}}
    \cup {[trust |-> 0, resentment |-> 0, admiration |-> q] : q \in {5, 6, 10, 11}}

Counterparts == {AlY, Bo}

Stabilities == {49, 50}

Ambitions == {10, 11}

SocialInit ==
    /\ state = World(HealthyConfig)
    /\ agents = Personas
    /\ ret = Return("World", TRUE, FALSE, NoEvent)
    /\ calls = 0
    /\ run = NoRun
    /\ seen = NoSeen
    /\ \/ \E relationship \in StartRelationships :
              social = [NoSocial EXCEPT !.pc = "relationship",
                                        !.relationship = relationship]
       \/ \E emotions \in StartEmotions :
              social = [NoSocial EXCEPT !.pc = "emotions", !.emotions = emotions]
       \/ social = [NoSocial EXCEPT !.pc = "goals"]

UpdateRelationship(action_type, description) ==
    /\ social.pc = "relationship"
    /\ social.calls < MaxSocialCalls
    /\ social' = [social EXCEPT
                     !.relationship = update_relationship(@, action_type, description),
                     !.calls = @ + 1,
                     !.last = [NoCall EXCEPT !.op = "update_relationship",
                                             !.action_type = action_type,
                                             !.description = description]]
    /\ UNCHANGED <<state, agents, ret, calls, run, seen>>

ApplyMessageEffects(tone, text) ==
    /\ social.pc = "relationship"
    /\ social.calls < MaxSocialCalls
    /\ social' = [social EXCEPT
                     !.relationship = apply_message_effects(@, tone, text),
                     !.calls = @ + 1,
                     !.last = [NoCall EXCEPT !.op = "apply_message_effects",
                                             !.tone = tone, !.text = text]]
    /\ UNCHANGED <<state, agents, ret, calls, run, seen>>

UpdateEmotions(action_type, is_target) ==
    /\ social.pc = "emotions"
    /\ social.calls < MaxSocialCalls
    /\ social' = [social EXCEPT
                     !.emotions = update_emotions(@, action_type, is_target),
                     !.calls = @ + 1,
                     !.last = [NoCall EXCEPT !.op = "update_emotions",
                                             !.action_type = action_type,
                                             !.is_target = is_target]]
    /\ UNCHANGED <<state, agents, ret, calls, run, seen>>

UpdateGoals(emotions, target_name, world_stability, ambition) ==
    /\ social.pc = "goals"
    /\ social.calls < MaxSocialCalls
    /\ social' = [social EXCEPT
                     !.goals = update_goals(@, emotions, target_name,
                                            world_stability, ambition),
                     !.calls = @ + 1,
                     !.last = [NoCall EXCEPT !.op = "update_goals",
                                             !.current_goals = social.goals,
                                             !.emotions = emotions,
                                             !.target_name = target_name,
                                             !.world_stability = world_stability,
                                             !.ambition = ambition]]
    /\ UNCHANGED <<state, agents, ret, calls, run, seen>>

SocialNext ==
    \/ \E action_type \in RelationshipKinds, description \in Descriptions :
           UpdateRelationship(action_type, description)
    \/ \E tone \in Tones, text \in Texts : ApplyMessageEffects(tone, text)
    \/ \E action_type \in EmotionKinds, is_target \in BOOLEAN :
           UpdateEmotions(action_type, is_target)
    \/ \E emotions \in GoalEmotions, target_name \in Counterparts,
          world_stability \in Stabilities, ambition \in Ambitions :
           UpdateGoals(emotions, target_name, world_stability, ambition)

SocialSpec == SocialInit /\ [][SocialNext]_vars

----------------------------------------------------------------------------
(* Vocabulary of the properties.  In an action formula ret' is what the    *)
(* call of the step returned, state the WorldState before it and state'    *)
(* the WorldState after it.                                                *)

AgentNames == {agents[i] : i \in 1..Len(agents)}

Applied == ret'.op = "apply_action"

Accepted == Applied /\ ret'.success

Rejected == Applied /\ ~ret'.success /\ ~ret'.raised

Actor == ret'.event.actor

Said == ret'.event.message

\* the step is an accepted improve_*, boost_morale or generate_treasury
ChargeableAccepted == Accepted /\ Said.text = "improved"

\* the step is an accepted support_agent, oppose_agent, send_message or pass
FreeAccepted ==
    Accepted /\ Said.text \in {"supported", "opposed", "sent a message to", "passed"}

\* the cost table of the specification: what is paid, how much, what is gained
CanonicalTable ==
    [improve_food |-> [pays |-> "energy", cost |-> 3, gains |-> "food", yield |-> 8],
     improve_energy |-> [pays |-> "treasury", cost |-> 3, gains |-> "energy", yield |-> 8],
     improve_infrastructure |->
         [pays |-> "treasury", cost |-> 4, gains |-> "infrastructure", yield |-> 8],
     boost_morale |-> [pays |-> "food", cost |-> 2, gains |-> "morale", yield |-> 8],
     generate_treasury |->
         [pays |-> "energy", cost |-> 4, gains |-> "treasury", yield |-> 3]]

----------------------------------------------------------------------------
\* C1: a call of apply_action that returns a rejection leaves the WorldState
\* as it was: the five resources, crisis_level, turn, cost_modifiers and
\* message_queue are all unchanged.
T_C1 == [][Rejected => state' = state]_vars

\* an action was rejected for an insufficient resource while a message was
\* queued and the actor held a modifier
W_C1 ==
    /\ ret.op = "apply_action" /\ ~ret.success /\ ~ret.raised
    /\ ret.event.message.text = "Cannot afford"
    /\ state.message_queue # <<>>
    /\ ret.event.actor \in DOMAIN state.cost_modifiers

\* C2: in every state reached by calls of apply_action and increment_turn
\* from any configuration, each of the five resources is >= 0.
T_C2 == \A r \in Resources : state[r] >= 0

\* a turn advance took food from 1 to 0 instead of -1
W_C2 ==
    /\ ret.op = "increment_turn" /\ state.turn = 1
    /\ state.food = 0 /\ state.energy = 1

\* C3: an entry of cost_modifiers is made by an accepted support_agent or
\* oppose_agent on B, stays through accepted free actions and turn advances,
\* is removed by B's accepted chargeable action whichever it is, and an
\* accepted chargeable action of an agent without an entry yields the base
\* output (multiplier 1.0).
T_C3 ==
    [][\A B \in AgentNames :
        /\ (Accepted /\ Said.text \in {"supported", "opposed"} /\ Said.who = B)
               => B \in DOMAIN state'.cost_modifiers
        /\ (B \in DOMAIN state.cost_modifiers
                /\ (FreeAccepted \/ ret'.op = "increment_turn"))
               => B \in DOMAIN state'.cost_modifiers
        /\ (ChargeableAccepted /\ Actor = B)
               => B \notin DOMAIN state'.cost_modifiers
        /\ (ChargeableAccepted /\ Actor = B /\ B \notin DOMAIN state.cost_modifiers)
               => LET row == CanonicalTable[Said.action]
                  IN  /\ Said.amount = row.yield
                      /\ state'[row.gains] = state[row.gains] + row.yield
      ]_vars

\* Bo's accepted chargeable action got the raised output and Bo's entry is
\* gone, one of the three calls having been a turn advance
W_C3 ==
    /\ ret.op = "apply_action" /\ ret.success
    /\ ret.event.message.text = "improved"
    /\ ret.event.message.status = "SUPPORTED"
    /\ ret.event.actor = Bo
    /\ Bo \notin DOMAIN state.cost_modifiers
    /\ state.turn = 1

\* C4 as stated: an agent's entry is gone after that agent's attempt at a
\* chargeable action, whether the attempt was accepted or rejected.
CE_C4 ==
    [][(Applied /\ ~ret'.raised /\ Said.text \in {"improved", "Cannot afford"})
           => Actor \notin DOMAIN state'.cost_modifiers]_vars

\* C4 as amended: an agent's entry is removed by that agent's accepted
\* chargeable action; a rejected attempt at one leaves cost_modifiers as it
\* was, the agent's entry included.
T_C4 ==
    [][/\ ChargeableAccepted => Actor \notin DOMAIN state'.cost_modifiers
       /\ (Rejected /\ Said.text \in {"Cannot afford",
                                      "Resource actions must target 'world'",
                                      "boost_morale must target 'world' or 'population'"})
              => state'.cost_modifiers = state.cost_modifiers
      ]_vars

\* an agent holding a modifier was refused a chargeable action it could not
\* pay for, and still holds the modifier
W_C4 ==
    /\ ret.op = "apply_action" /\ ~ret.success /\ ~ret.raised
    /\ ret.event.message.text = "Cannot afford"
    /\ ret.event.actor \in DOMAIN state.cost_modifiers
    /\ state.cost_modifiers[ret.event.actor] = 5

\* floor(base_cost * m), m in tenths
ModifiedCost(base_cost, m) == (base_cost * m) \div 10

\* C5 as stated: a chargeable action passes the affordability check exactly
\* when the amount held of its cost resource is >= floor(base_cost * m), m
\* being the actor's pending modifier (1.0 when absent).
CE_C5 ==
    [][(Applied /\ ~ret'.raised /\ Said.text \in {"improved", "Cannot afford"})
           => LET row == CanonicalTable[Said.action]
                  m == IF Actor \in DOMAIN state.cost_modifiers
                       THEN state.cost_modifiers[Actor] ELSE 10
              IN  (Said.text = "improved")
                      <=> (state[row.pays] >= ModifiedCost(row.cost, m))
      ]_vars

\* C6: for an actor without a pending modifier an accepted chargeable action
\* lowers its cost resource by the table's cost, raises its output resource
\* by the table's yield and leaves the other three resources unchanged.
T_C6 ==
    [][(ChargeableAccepted /\ Actor \notin DOMAIN state.cost_modifiers)
           => LET row == CanonicalTable[Said.action]
              IN  /\ state'[row.pays] = state[row.pays] - row.cost
                  /\ state'[row.gains] = state[row.gains] + row.yield
                  /\ \A r \in Resources \ {row.pays, row.gains} : state'[r] = state[r]
      ]_vars

\* an agent without a modifier sold energy for treasury
W_C6 ==
    /\ ret.op = "apply_action" /\ ret.success
    /\ ret.event.message.text = "improved"
    /\ ret.event.message.action = "generate_treasury"
    /\ ret.event.message.status = ""
    /\ state.treasury = 7 /\ state.energy = 0

\* the agent the engine resolves a target to: the first name of the agent
\* list whose first word, lower-cased, is the target's first word, lower-cased
Resolved(target) ==
    LET word(s) == lower(split(s)[1])
        hits == {i \in 1..Len(agents) : word(agents[i]) = word(target)}
    IN  agents[CHOOSE i \in hits : \A j \in hits : i <= j]

Callers == IF ret'.raised THEN AgentNames ELSE {Actor}

\* C9 as stated: every call with a resource action whose target is not
\* exactly "world" is rejected.
CE_C9 ==
    [][(Applied /\ ~Rejected) =>
        \A a \in Callers, action \in Action :
            (action.type \in ResourceActions /\ action.target # S_world)
            => ~ApplyAction(a, action)
      ]_vars

\* the resource actions the amended C9 wants rejected for their target
OffTarget ==
    {action \in Action :
        /\ action.type \in ResourceActions
        /\ action.target # S_world
        /\ ~(action.type = "boost_morale" /\ action.target = S_population)}

\* C9 as amended: in every state apply_action rejects, for every agent, every
\* improve_food, improve_energy, improve_infrastructure or generate_treasury
\* whose target is not exactly "world" and every boost_morale whose target is
\* neither "world" nor "population"; a boost_morale aimed at "population" is
\* accepted whenever food covers its cost of 2.
T_C9 ==
    \A a \in AgentNames :
        /\ \A action \in OffTarget :
               LET r == apply_action(state, a, action, agents)
               IN  ~r.success /\ ~r.raised /\ r.state = state
        /\ state.food >= 2 =>
               apply_action(state, a,
                            [type |-> "boost_morale", target |-> S_population,
                             message |-> None],
                            agents).success

\* a resource action aimed at something other than "world" was rejected
W_C9 ==
    /\ ret.op = "apply_action" /\ ~ret.success /\ ~ret.raised
    /\ ret.event.message.text = "Resource actions must target 'world'"
    /\ ret.event.message.status = "action failed"

\* the first word of a string, lower-cased; empty when it has none
FirstWord(s) == IF s = None \/ split(s) = <<>> THEN <<>> ELSE lower(split(s)[1])

\* the target's first word is the first word of some agent's name
Known(target) ==
    /\ FirstWord(target) # <<>>
    /\ \E X \in AgentNames : FirstWord(X) = FirstWord(target)

\* the target is the full name of an agent other than a, or a first name of
\* such an agent that a does not bear itself
AimedAtOther(a, target) ==
    \E X \in AgentNames \ {a} :
        \/ target = X
        \/ /\ target # None /\ target # <<>>
           /\ lower(target) = FirstWord(X)
           /\ FirstWord(X) # FirstWord(a)

\* C10 as stated: a support_agent, oppose_agent or send_message is accepted
\* only if its target's first word is that of some agent's name, the agent
\* it resolves to is not the actor and, for send_message, the content is not
\* empty; every such action aimed at another agent by full name or first
\* name is accepted; every one aimed at the actor's own name or at a name of
\* no agent is rejected.
CE_C10 ==
    [][Applied =>
        \A a \in Callers, action \in Action :
            (action.type \in {"support_agent", "oppose_agent", "send_message"}
                 /\ ApplyAction(a, action))
            => /\ Accepted =>
                    /\ Known(action.target)
                    /\ Resolved(action.target) # a
                    /\ action.type = "send_message" => Truthy(action.message)
               /\ (/\ AimedAtOther(a, action.target)
                   /\ action.type = "send_message" => Truthy(action.message))
                      => Accepted
               /\ (action.target = a
                       \/ (FirstWord(action.target) # <<>> /\ ~Known(action.target)))
                      => Rejected
      ]_vars

\* C11 as stated: a pass is accepted whatever target it carries, and changes
\* no resource, no modifier, no queued message and not the turn counter.
CE_C11 ==
    [][Applied =>
        \A a \in Callers, action \in Action :
            (action.type = "pass" /\ ApplyAction(a, action))
            => /\ Accepted
               /\ \A f \in Resources \cup {"cost_modifiers", "message_queue", "turn"} :
                      state'[f] = state[f]
      ]_vars

\* C12: an accepted send_message appends one message to the end of
\* message_queue, with the actor as sender, the action's target as recipient,
\* the action's content and the current turn; the messages queued before keep
\* their places, and the five resources, cost_modifiers and turn are unchanged.
T_C12 ==
    [][(Accepted /\ Said.text = "sent a message to") =>
        \A action \in Action :
            (action.type = "send_message" /\ ApplyAction(Actor, action))
            => /\ state'.message_queue =
                      Append(state.message_queue,
                             [sender |-> Actor, recipient |-> action.target,
                              content |-> action.message, turn_sent |-> state.turn])
               /\ \A f \in Resources \cup {"cost_modifiers", "turn"} :
                      state'[f] = state[f]
      ]_vars

\* Bo's message to "al" was queued in turn 1 behind Al X's message to Bo of
\* turn 0
W_C12 ==
    /\ ret.op = "apply_action" /\ ret.success
    /\ ret.event.message.text = "sent a message to"
    /\ Len(state.message_queue) = 2
    /\ state.message_queue[1] =
           [sender |-> AlX, recipient |-> Bo, content |-> S_hi, turn_sent |-> 0]
    /\ state.message_queue[2] =
           [sender |-> Bo, recipient |-> S_al, content |-> S_hi, turn_sent |-> 1]

\* C13: in every state crisis_level is
\* max(0, 100 - floor((treasury + food + energy + infrastructure + morale) / 5))
\* of the current resources, and lies in 0..100.
T_C13 ==
    LET sum == state.treasury + state.food + state.energy
                   + state.infrastructure + state.morale
    IN  /\ state.crisis_level = Max(0, 100 - (sum \div 5))
        /\ state.crisis_level \in 0..100

\* with an average of 103 after an oppose_agent, crisis_level is held at 0
W_C13 ==
    /\ ret.op = "apply_action" /\ ret.success
    /\ ret.event.message.text = "opposed"
    /\ state.morale = 517 /\ state.treasury = 0
    /\ state.crisis_level = 0

\* C14: increment_turn raises turn by 1, lowers treasury, food, energy and
\* infrastructure by 2 each, floored at 0, and leaves morale, cost_modifiers
\* and message_queue unchanged.
T_C14 ==
    [][ret'.op = "increment_turn" =>
        /\ state'.turn = state.turn + 1
        /\ \A r \in {"treasury", "food", "energy", "infrastructure"} :
               state'[r] = Max(0, state[r] - 2)
        /\ \A f \in {"morale", "cost_modifiers", "message_queue"} :
               state'[f] = state[f]
      ]_vars

\* a turn advance with a modifier pending and a message queued took food from
\* 1 to the floor
W_C14 ==
    /\ ret.op = "increment_turn" /\ state.turn = 1
    /\ state.food = 0 /\ state.energy = 1
    /\ state.cost_modifiers # EmptyDict
    /\ state.message_queue # <<>>

\* C15: check_terminal_state reports terminal exactly when food <= 0, or
\* energy <= 0, or treasury <= 0 and infrastructure < 20, or morale <= 5, and
\* the reason it gives is that of the first of these, in this order, to hold.
T_C15 ==
    ret.op = "check_terminal_state" =>
        LET starved == state.food <= 0
            collapsed == state.energy <= 0
            bankrupt == state.treasury <= 0 /\ state.infrastructure < 20
            broken == state.morale <= 5
            reason == ret.event.message.text
        IN  /\ ret.success <=> (starved \/ collapsed \/ bankrupt \/ broken)
            /\ starved => reason = "Food supply exhausted"
            /\ (~starved /\ collapsed) => reason = "Energy depleted"
            /\ (~starved /\ ~collapsed /\ bankrupt) => reason = "Economic collapse"
            /\ (~starved /\ ~collapsed /\ ~bankrupt /\ broken)
                   => reason = "Morale critical"

\* with food and energy both at 0, treasury at 0 and morale at 1, the reason
\* reported is starvation
W_C15 ==
    /\ ret.op = "check_terminal_state" /\ ret.success
    /\ ret.event.message.text = "Food supply exhausted"
    /\ state.food = 0 /\ state.energy = 0
    /\ state.treasury = 0 /\ state.infrastructure = 0 /\ state.morale = 1

\* the terminal conditions of the specification
TerminalCondition(s) ==
    \/ s.food <= 0
    \/ s.energy <= 0
    \/ (s.treasury <= 0 /\ s.infrastructure < 20)
    \/ s.morale <= 5

\* the step is an agent's action of the run
ActsInRun == Len(seen'.acted) = Len(seen.acted) + 1

\* the step is the end of a round of the run
EndsRound == run.pc = "for" /\ run.i > Len(agents)

\* C16 as stated: from a world state that satisfies a terminal condition the
\* run applies no further agent action and never comes back to a state that
\* satisfies none.
CE_C16 ==
    [][TerminalCondition(state) => (~ActsInRun /\ TerminalCondition(state'))]_vars

\* C17: when the end of a round finds the world terminal (the run not
\* stopping there for passes), the run stops with the state as it was, turn
\* included, and takes no step after that.
T_C17 ==
    [][/\ (EndsRound /\ run'.pc # "break_passes" /\ TerminalCondition(state))
              => (run'.pc = "break_terminal" /\ state' = state)
       /\ run.pc = "break_terminal" => FALSE
      ]_vars

\* the second round of a run of three found the food gone after the decay,
\* and the run stopped at turn 1
W_C17 ==
    /\ run.pc = "break_terminal" /\ run.max_turns = 3
    /\ ret.op = "check_terminal_state" /\ ret.success
    /\ ret.event.message.text = "Food supply exhausted"
    /\ state.turn = 1 /\ seen.rounds = 2 /\ state.food = 0

\* C18: the agents act in the order of the agent list, each once in a round,
\* and a run that leaves the loop for max_turns has played max_turns rounds
\* and has turn = max_turns.
T_C18 ==
    /\ Len(seen.acted) <= Len(agents)
    /\ \A k \in 1..Len(seen.acted) : seen.acted[k] = agents[k]
    /\ (run.pc = "for" /\ run.i > Len(agents)) => seen.acted = agents
    /\ run.pc = "exit_max_turns" =>
           /\ state.turn = run.max_turns
           /\ seen.rounds = run.max_turns
           /\ run.max_turns > 0 => seen.acted = agents

\* a run of three rounds has left the loop at turn 3
W_C18 ==
    /\ run.pc = "exit_max_turns" /\ run.max_turns = 3
    /\ state.turn = 3 /\ seen.rounds = 3

\* C19: the end of a round stops the run for passes exactly when every
\* agent's action of this round and of the round before it was a pass; a
\* round with an action that is no pass puts consecutive_passes back to 0.
T_C19 ==
    [][EndsRound =>
        /\ (run'.pc = "break_passes") <=> (seen.all_pass_now /\ seen.all_pass_prev)
        /\ ~seen.all_pass_now => run'.consecutive_passes = 0
      ]_vars

\* the run stopped for passes at the end of its third round, the first round
\* having held an action that was no pass
W_C19 ==
    /\ run.pc = "break_passes" /\ seen.rounds = 3 /\ state.turn = 2
    /\ seen.all_pass_now /\ seen.all_pass_prev

\* the agent a message is for: the one bearing the recipient's name, else the
\* first of the list whose first word is the recipient's; 0 when there is none
Addressee(recipient) ==
    IF \E k \in 1..Len(agents) : agents[k] = recipient
    THEN CHOOSE k \in 1..Len(agents) : agents[k] = recipient
    ELSE IF \E k \in 1..Len(agents) : FirstWord(agents[k]) = FirstWord(recipient)
    THEN CHOOSE k \in 1..Len(agents) :
             /\ FirstWord(agents[k]) = FirstWord(recipient)
             /\ \A j \in 1..(k - 1) : FirstWord(agents[j]) # FirstWord(recipient)
    ELSE 0

\* C20: the start of a round hands every queued message, each accepted in
\* the round before, to its addressee and to nobody else, once and in queue
\* order, and leaves message_queue empty; no other step of the run puts a
\* message into an inbox.
T_C20 ==
    [][IF run.pc = "while" /\ run'.pc = "for"
       THEN /\ state'.message_queue = <<>>
            /\ \A n \in 1..Len(state.message_queue) :
                   state.message_queue[n].turn_sent = state.turn - 1
            /\ \A k \in 1..Len(agents) :
                   LET mine == SelectSeq(state.message_queue,
                                         LAMBDA m : Addressee(m.recipient) = k)
                   IN  run'.messages_received[k] =
                           run.messages_received[k]
                               \o [n \in 1..Len(mine) |->
                                      [sender |-> mine[n].sender,
                                       content |-> mine[n].content]]
       ELSE \A k \in DOMAIN run.messages_received :
                \/ run'.messages_received[k] = run.messages_received[k]
                \/ run'.messages_received[k] = <<>>
      ]_vars

\* the second round has begun: Bo's message to "Al Y" is in the inbox of Al Y
\* and not of Al X, whose first word is the same, and the queue is empty
W_C20 ==
    /\ run.pc = "for" /\ run.i = 1 /\ state.turn = 1
    /\ state.message_queue = <<>>
    /\ run.messages_received[1] = <<>>
    /\ run.messages_received[2] = <<[sender |-> Bo, content |-> S_thanks]>>
    /\ run.messages_received[3] = <<>>

----------------------------------------------------------------------------
(* Vocabulary of the social layer.  In an action formula social.x is the   *)
(* value before the call of the step and social'.x the value after it.     *)

Updated == social'.last.op = "update_relationship"

Messaged == social'.last.op = "apply_message_effects"

InRange(x, lo, hi) == lo <= x /\ x <= hi

\* the last n entries of a log
LastN(log, n) == IF Len(log) > n THEN SubSeq(log, Len(log) - n + 1, Len(log)) ELSE log

----------------------------------------------------------------------------
\* C22: after any sequence of update_relationship and apply_message_effects
\* calls that starts from a default Relationship, trust and resentment are
\* both within [-50, 50].
CE_C22 ==
    [][Updated \/ Messaged =>
           /\ InRange(social'.relationship.trust, -50, 50)
           /\ InRange(social'.relationship.resentment, -50, 50)]_vars

T_C25 ==
    [][Updated \/ Messaged =>
           LET before == social.relationship.history
               after == social'.relationship.history
               logs == \/ Messaged
                       \/ /\ social'.last.action_type \in DOMAIN RELATIONSHIP_DELTAS
                          /\ Truthy(social'.last.description)
           IN  /\ Len(after) <= 10
               /\ IF logs
                  THEN /\ after # <<>>
                       /\ after = LastN(Append(before, after[Len(after)]), 10)
                       /\ Updated => after[Len(after)] = social'.last.description
                  ELSE after = before]_vars

\* three notes were logged on a history of nine observed actions: the two
\* oldest entries are gone, seven of the nine are left and the notes follow
W_C25 ==
    /\ social.calls = 3
    /\ Len(social.relationship.history) = 10
    /\ \A n \in 1..7 : social.relationship.history[n] = <<"Turn action: ", "support_agent">>
    /\ \A n \in 8..10 : social.relationship.history[n] = <<"note">>

Felt == social'.last.op = "update_emotions"

EmotionNames == {"trust", "resentment", "admiration", "fear", "ambition", "insecurity"}

\* C26: after any sequence of update_emotions calls that starts from the
\* default vector, the vector has its six scalars and each of them is within
\* [-50, 50].
T_C26 ==
    /\ DOMAIN social.emotions = EmotionNames
    /\ \A k \in EmotionNames : InRange(social.emotions[k], -50, 50)

\* form_alliance was aimed at an agent whose trust was 50 already: trust is
\* still 50 while admiration went from 45 to 47
W_C26 ==
    /\ social.last.op = "update_emotions"
    /\ social.last.action_type = "form_alliance"
    /\ social.last.is_target
    /\ social.calls = 1
    /\ social.emotions.trust = 50
    /\ social.emotions.admiration = 47

\* C27 as stated: with is_target false update_emotions returns its input,
\* except for consume_resource, which returns it with resentment raised by 1.
CE_C27 ==
    [][Felt /\ ~social'.last.is_target =>
           IF social'.last.action_type = "consume_resource"
           THEN social'.emotions =
                    [social.emotions EXCEPT !.resentment = @ + 1]
           ELSE social'.emotions = social.emotions]_vars

\* C27: with is_target false update_emotions returns its input, except for
\* consume_resource, which returns it with resentment raised by 1 but not
\* above 50.
T_C27 ==
    [][Felt /\ ~social'.last.is_target =>
           IF social'.last.action_type = "consume_resource"
           THEN social'.emotions =
                    [social.emotions EXCEPT !.resentment = Min(50, @ + 1)]
           ELSE social'.emotions = social.emotions]_vars

\* consume_resource was seen by an onlooker whose resentment was 50 after
\* four sabotages: the vector is as it was
W_C27 ==
    /\ social.last.op = "update_emotions"
    /\ social.last.action_type = "consume_resource"
    /\ ~social.last.is_target
    /\ social.calls = 1
    /\ social.emotions = felt(get_default_emotions, "sabotage", 4)
    /\ social.emotions.resentment = 50

GoalsUpdated == social'.last.op = "update_goals"

\* the slots with the quantity that drives each and its two thresholds
Driven ==
    [ally_with |-> [by |-> "trust", high |-> 15, low |-> 10],
     undermine |-> [by |-> "resentment", high |-> 15, low |-> 10],
     seek_approval_from |-> [by |-> "admiration", high |-> 10, low |-> 5]]

Slots == {"ally_with", "undermine", "gain_influence_over", "seek_approval_from"}

\* the counterpart evaluated by the call call qualifies for the slot
Qualifies(call, slot) ==
    IF slot = "gain_influence_over"
    THEN call.ambition > 10 /\ call.world_stability < 50
    ELSE call.emotions[Driven[slot].by] > Driven[slot].high

\* C28: for ally_with (trust), undermine (resentment) and seek_approval_from
\* (admiration), evaluating counterpart X sets the slot to X when the quantity
\* is above the high threshold (15, 15, 10), leaves a slot naming X as it is
\* while the quantity is above the low threshold (10, 10, 5) and at most the
\* high one, and clears a slot naming X when the quantity is at or below the
\* low threshold.
T_C28 ==
    [][GoalsUpdated =>
           \A slot \in DOMAIN Driven :
               LET X == social'.last.target_name
                   quantity == social'.last.emotions[Driven[slot].by]
                   before == social.goals[slot]
                   after == social'.goals[slot]
               IN  /\ quantity > Driven[slot].high => after = X
                   /\ before = X /\ quantity > Driven[slot].low
                          /\ quantity <= Driven[slot].high => after = X
                   /\ before = X /\ quantity <= Driven[slot].low => after = None]_vars

\* Bo, the ally, was evaluated with trust 11: Bo is still the ally
W_C28 ==
    /\ social.last.op = "update_goals"
    /\ social.last.target_name = Bo
    /\ social.last.emotions.trust = 11
    /\ social.last.current_goals.ally_with = Bo
    /\ social.goals.ally_with = Bo

\* C29: evaluating counterpart Y changes a slot that names another
\* counterpart X only when Y qualifies for that slot.
T_C29 ==
    [][GoalsUpdated =>
           \A slot \in Slots :
               LET Y == social'.last.target_name
                   before == social.goals[slot]
               IN  before \notin {None, Y} /\ ~Qualifies(social'.last, slot)
                       => social'.goals[slot] = before]_vars

\* Bo was evaluated with trust 10 and no ambition while Al Y was the ally and
\* the one to gain influence over: both slots still name Al Y
W_C29 ==
    /\ social.last.op = "update_goals"
    /\ social.last.target_name = Bo
    /\ social.last.emotions.trust = 10
    /\ social.last.ambition = 10
    /\ social.last.current_goals.ally_with = AlY
    /\ social.last.current_goals.gain_influence_over = AlY
    /\ social.goals.ally_with = AlY
    /\ social.goals.gain_influence_over = AlY

\* C30: every slot holds None or one counterpart's name; a counterpart Y that
\* qualifies for a slot takes it whoever it named, and a call leaves in a slot
\* what it held, Y or None, never a name the slot held earlier.
T_C30 ==
    [][GoalsUpdated =>
           \A slot \in Slots :
               LET Y == social'.last.target_name
                   after == social'.goals[slot]
               IN  /\ after \in Counterparts \cup {None}
                   /\ after \in {social.goals[slot], Y, None}
                   /\ Qualifies(social'.last, slot) => after = Y]_vars

\* Bo was evaluated with trust 16 while Al Y was the ally: the ally is Bo
W_C30 ==
    /\ social.last.op = "update_goals"
    /\ social.last.target_name = Bo
    /\ social.last.emotions.trust = 16
    /\ social.last.current_goals.ally_with = AlY
    /\ social.goals.ally_with = Bo

\* the relationship an agent has toward another: the default one when its
\* ledger has no entry yet
Toward(ledger, name) == get(ledger, name, Relationship)

\* the trust and resentment deltas of an action kind: none for a kind the
\* table does not have
DeltaOf(kind) ==
    IF kind \in DOMAIN RELATIONSHIP_DELTAS THEN RELATIONSHIP_DELTAS[kind]
    ELSE [trust |-> 0, resentment |-> 0]

\* what the event of an accepted action of the kind says
Saying(kind) ==
    CASE kind = "support_agent" -> "supported"
      [] kind = "oppose_agent" -> "opposed"
      [] kind = "send_message" -> "sent a message to"
      [] kind = "pass" -> "passed"
      [] OTHER -> "improved"

\* C21: after an accepted action of actor A every other agent's relationship
\* toward A has moved by the delta of the action's kind, what it holds toward
\* anyone else is as it was and A's own ledger is unchanged; after an action
\* that was not accepted no ledger has changed.
T_C21 ==
    [][ActsInRun =>
           IF ret'.success
           THEN \A proposal \in Proposals :
                    Saying(proposal.type) = Said.text /\ AgentActs(proposal) =>
                        LET A == agents[run.i]
                            delta == DeltaOf(proposal.type)
                        IN  \A k \in 1..Len(agents) :
                                LET before == run.relationships[k]
                                    after == run'.relationships[k]
                                IN  IF k = run.i THEN after = before
                                    ELSE /\ Toward(after, A).trust =
                                                Toward(before, A).trust + delta.trust
                                         /\ Toward(after, A).resentment =
                                                Toward(before, A).resentment
                                                    + delta.resentment
                                         /\ \A name \in DOMAIN before \ {A} :
                                                Toward(after, name) = before[name]
           ELSE run'.relationships = run.relationships]_vars

\* Al X's support of Bo was accepted as the first action of the run: Al Y and
\* Bo trust Al X by 10, and Al X's own ledger is empty
W_C21 ==
    /\ run.pc = "for" /\ run.i = 2 /\ seen.rounds = 1
    /\ ret.op = "apply_action" /\ ret.success
    /\ ret.event.message.text = "supported"
    /\ run.relationships[1] = EmptyDict
    /\ Toward(run.relationships[2], AlX).trust = 10
    /\ Toward(run.relationships[2], AlX).resentment = -5
    /\ Toward(run.relationships[3], AlX).trust = 10

\* C24: a delivered message moves the recipient's relationship toward the
\* sender by the delta of the tone of the message's content: 3 and -1 for a
\* friendly content, -3 and 3 for a hostile one, 1 and 0 for a neutral one.
CE_C24 ==
    [][run.pc = "while" /\ run'.pc = "for" =>
           \A n \in 1..Len(state.message_queue) :
               LET msg == state.message_queue[n]
                   k == Addressee(msg.recipient)
                   delta == RELATIONSHIP_DELTAS[action_map(parse_message_tone(msg.content))]
               IN  k # 0 =>
                       /\ Toward(run'.relationships[k], msg.sender).trust =
                              Toward(run.relationships[k], msg.sender).trust
                                  + delta.trust
                       /\ Toward(run'.relationships[k], msg.sender).resentment =
                              Toward(run.relationships[k], msg.sender).resentment
                                  + delta.resentment]_vars

\* C31: evaluating counterpart X leaves gain_influence_over naming X exactly
\* when the agent's ambition is above 10 and the world's stability below 50,
\* whatever the emotions toward X; otherwise a slot that named X is cleared
\* and a slot that did not is as it was.
T_C31 ==
    [][GoalsUpdated =>
           LET X == social'.last.target_name
               before == social.goals.gain_influence_over
               after == social'.goals.gain_influence_over
               holds == social'.last.ambition > 10 /\ social'.last.world_stability < 50
           IN  /\ after = X <=> holds
               /\ ~holds /\ before = X => after = None
               /\ ~holds /\ before # X => after = before]_vars

\* Bo, the one to gain influence over, was evaluated with ambition 11 and a
\* stability of 50: the slot is empty
W_C31 ==
    /\ social.last.op = "update_goals"
    /\ social.last.target_name = Bo
    /\ social.last.ambition = 11
    /\ social.last.world_stability = 50
    /\ social.last.current_goals.gain_influence_over = Bo
    /\ social.goals.gain_influence_over = None

\* every attempt the client makes raises
CallFails(attempts) ==
    \A k \in 1..llm_retries : k <= Len(attempts) => ~attempts[k].ok

\* C32: when every attempt of an agent's proposer call raises, the agent's
\* action of the round is the default pass on "world": the engine accepts
\* it, no resource, modifier, message or the turn changes, and the round goes
\* on with the next agent.
T_C32 ==
    [][ActsInRun =>
           \A attempts \in Attempts :
               CallFails(attempts) /\ AgentActs(decide(attempts)) =>
                   /\ ret'.success /\ ~ret'.raised
                   /\ Said.text = "passed"
                   /\ seen'.reason = "LLM failure"
                   /\ state' = state
                   /\ run'.pc = "for"
                   /\ run'.i = run.i + 1
                   /\ run'.turn_passes = run.turn_passes + 1]_vars

\* Al Y's call failed in the first round after Al X's support of Bo: Al Y
\* passed, the world is as Al X left it and Bo is the next to act
W_C32 ==
    /\ run.pc = "for" /\ run.i = 3 /\ seen.rounds = 1
    /\ seen.reason = "LLM failure"
    /\ ret.op = "apply_action" /\ ret.success
    /\ ret.event.message.text = "passed"
    /\ ret.event.actor = AlY
    /\ run.turn_passes = 1
    /\ get(state.cost_modifiers, Bo, 0) = 15

\* the feed agent k's decide would be given
Feed(r, k) == targeting_me(r.current_turn_targeting, agents[k])

\* the target names agent X: by X's full name, or by a first name that is no
\* agent's full name and that the engine resolves to X
NamesAgent(target, X) ==
    \/ target = X
    \/ /\ target \notin AgentNames
       /\ Known(target)
       /\ Resolved(target) = X

\* C33: the feed of an agent that has not acted yet in the round is empty
\* when the round starts, and an agent's action adds to it exactly when it is
\* a support_agent, oppose_agent or send_message that was accepted and names
\* that agent, by full name or by first name; nothing else changes a feed.
CE_C33 ==
    [][/\ run.pc = "while" /\ run'.pc = "for" =>
              \A k \in 1..Len(agents) : Feed(run', k) = <<>>
       /\ ActsInRun /\ ~ret'.raised =>
              \A proposal \in Proposals :
                  AgentActs(proposal) =>
                      LET target == IF Truthy(proposal.target)
                                    THEN sanitize(proposal.target)
                                    ELSE proposal.target
                          tracked == proposal.type \in {"support_agent", "oppose_agent",
                                                       "send_message"}
                      IN  \A k \in (run.i + 1)..Len(agents) :
                              Feed(run', k) =
                                  IF tracked /\ ret'.success /\ NamesAgent(target, agents[k])
                                  THEN Append(Feed(run, k),
                                              [actor |-> agents[run.i],
                                               type |-> proposal.type,
                                               target |-> target,
                                               reason |-> proposal.reason])
                                  ELSE Feed(run, k)]_vars

-----------------------------------------------------------------------------
(* Snapshots: the engine's calls interleaved with get_view.  seen.view is  *)
(* the snapshot the last get_view returned.                                *)

GetView ==
    /\ seen' = [seen EXCEPT !.view = get_view(state)]
    /\ ret' = Return("get_view", TRUE, FALSE, NoEvent)
    /\ UNCHANGED <<state, agents, calls, run, social>>

ViewNext ==
    \/ GetView
    \/ \E i \in 1..Len(agents), action \in Action : ApplyAction(agents[i], action)
    \/ IncrementTurn

ViewSpec == Init /\ [][ViewNext]_vars

\* C34: once get_view has returned a snapshot, no later apply_action or
\* increment_turn changes what any field of that snapshot holds, its
\* cost_modifiers and message_queue included.
CE_C34 ==
    [][seen.view.taken /\ calls' = calls + 1 =>
           shown(seen'.view, state') = shown(seen.view, state)]_vars

-----------------------------------------------------------------------------
(* The affordability table of the prompt *)

\* "Resource action costs: (resource_name, base_cost)"
RESOURCE_COSTS ==
    [improve_food |-> <<"energy", 3>>,
     improve_energy |-> <<"treasury", 3>>,
     improve_infrastructure |-> <<"treasury", 4>>,
     boost_morale |-> <<"food", 2>>,
     generate_treasury |-> <<"energy", 4>>]

\* int(base_cost * modifier), the modifier being the reader's own
_calculate_cost(base_cost, world_state, persona_name) ==
    int(base_cost * get(world_state.cost_modifiers, persona_name, 10))

\* one row of the table: the mark, and the pieces of the display string
_check_affordability(action_name, world_state, persona_name) ==
    IF action_name \notin DOMAIN RESOURCE_COSTS
    THEN [can_afford |-> TRUE, free |-> TRUE, actual_cost |-> 0,
          resource_name |-> "", current_amount |-> 0]
    ELSE LET resource_name == RESOURCE_COSTS[action_name][1]
             base_cost == RESOURCE_COSTS[action_name][2]
             actual_cost == _calculate_cost(base_cost, world_state, persona_name)
             current_amount == world_state[resource_name]
         IN  [can_afford |-> current_amount >= actual_cost, free |-> FALSE,
              actual_cost |-> actual_cost, resource_name |-> resource_name,
              current_amount |-> current_amount]

\* C35: when an agent applies a chargeable action on "world", the row of its
\* affordability table for that action, built from the state before the call,
\* marks the action affordable exactly if the engine does not reject it for
\* insufficient resources, and the cost it shows is the cost the engine
\* deducts.
CE_C35 ==
    [][\A i \in 1..Len(agents), action \in Action :
           /\ action.type \in ResourceActions
           /\ action.target = S_world
           /\ ApplyAction(agents[i], action)
           => LET row == _check_affordability(action.type, state, agents[i])
              IN  /\ row.can_afford <=> ~(Rejected /\ Said.text = "Cannot afford")
                  /\ Accepted =>
                         row.actual_cost =
                             state[row.resource_name] - state'[row.resource_name]]_vars

-----------------------------------------------------------------------------
(* Decision biases.  A weight is held in units of 1/3600, the common       *)
(* denominator of the divisors 100, 90 and 80: weight(25) is 0.25.         *)

weight(hundredths) == hundredths * 36

SOCIAL_ACTION_BASE == weight(100)

WORLD_ACTION_BASE == weight(25)

social_actions ==
    {"support_agent", "oppose_agent", "negotiate", "request_help", "trade", "sabotage",
     "form_alliance", "denounce_agent", "offer_concession", "demand_concession",
     "accuse_agent", "offer_protection", "spread_rumor", "propose_policy",
     "send_message"}

world_actions ==
    {"improve_resource", "consume_resource", "boost_morale", "strengthen_infrastructure"}

\* modifiers[action] of the archetype, 0 where the dict has no such key
get_persona_biases(persona_archetype, action) ==
    LET modifiers ==
            IF persona_archetype = "Guardian"
            THEN [strengthen_infrastructure |-> 50, support_agent |-> 30,
                  form_alliance |-> 30, propose_policy |-> -20]
            ELSE IF persona_archetype = "Visionary"
            THEN [propose_policy |-> 50, negotiate |-> 30, improve_resource |-> 30]
            ELSE IF persona_archetype = "Realist"
            THEN [consume_resource |-> 20, trade |-> 40, oppose_agent |-> 20]
            ELSE IF persona_archetype = "Idealist"
            THEN [boost_morale |-> 50, support_agent |-> 40, offer_concession |-> 30]
            ELSE IF persona_archetype = "Agitator"
            THEN [oppose_agent |-> 50, denounce_agent |-> 50, spread_rumor |-> 50,
                  sabotage |-> 30]
            ELSE [none |-> 0]
    IN  IF action \in DOMAIN modifiers THEN weight(modifiers[action]) ELSE 0

insecurity_factor(emotions) == emotions.insecurity

\* biases[action] of get_emotional_bias, 0 where the dict has no such key
get_emotional_bias(emotions, action) ==
    LET trust == emotions.trust
        resentment == emotions.resentment
        admiration == emotions.admiration
        fear == emotions.fear
    IN  CASE action = "support_agent" -> (trust + admiration) * 36
          [] action = "form_alliance" -> (trust + admiration) * 45
          [] action = "offer_protection" -> (trust + admiration) * 40
          [] action = "offer_concession" -> (trust - resentment) * 36
          [] action = "negotiate" -> (trust + admiration - fear) * 36
          [] action = "oppose_agent" -> (resentment - trust) * 36
          [] action = "sabotage" -> (resentment - trust) * 45
          [] action = "denounce_agent" -> (resentment - trust) * 40
          [] action = "accuse_agent" -> (resentment - trust) * 40
          [] action = "demand_concession" -> (resentment + fear) * 36
          [] action = "spread_rumor" -> (resentment + insecurity_factor(emotions)) * 36
          [] OTHER -> 0

\* the sum of the +0.5 bonuses the goals give to an action
goal_bonus(goals, action) ==
    LET bonus(slot, actions) ==
            IF Truthy(goals[slot]) /\ action \in actions THEN weight(50) ELSE 0
    IN  bonus("ally_with", {"form_alliance", "support_agent", "offer_protection"})
        + bonus("undermine", {"denounce_agent", "sabotage", "spread_rumor", "oppose_agent"})
        + bonus("seek_approval_from", {"offer_concession", "support_agent"})
        + bonus("gain_influence_over", {"demand_concession", "accuse_agent"})

compute_action_biases(persona_archetype, crisis_level, emotions, goals) ==
    [action \in social_actions \cup world_actions |->
        (IF action \in social_actions THEN SOCIAL_ACTION_BASE ELSE WORLD_ACTION_BASE)
        + (IF crisis_level > 60 /\ action \in world_actions THEN weight(100) ELSE 0)
        + get_persona_biases(persona_archetype, action)
        + get_emotional_bias(emotions, action)
        + goal_bonus(goals, action)]

\* "Penalty: -0.75 if repeating last action": only recent_actions[-1] counts
apply_repetition_penalty(biases, recent_actions) ==
    IF recent_actions = <<>>
    THEN biases
    ELSE LET last_action == recent_actions[Len(recent_actions)]
         IN  [action \in DOMAIN biases |->
                 biases[action]
                 - (IF action = last_action THEN weight(75) ELSE 0)
                 - (IF action = last_action /\ last_action = "propose_policy"
                    THEN weight(200) ELSE 0)]

\* self.recent_actions.append(...); if len(...) > 5: pop(0)
remember(recent_actions, action_type) ==
    LastN(Append(recent_actions, action_type), 5)

Archetypes == {"Guardian", "Visionary", "Realist", "Idealist", "Agitator", "Generic"}

Crises == {0, 61}

BiasEmotions ==
    {get_default_emotions,
     [get_default_emotions EXCEPT !.trust = 40, !.admiration = 40],
     [get_default_emotions EXCEPT !.resentment = 40, !.fear = 20]}

BiasGoals ==
    [ally_with : {None, Bo}, undermine : {None, Bo},
     gain_influence_over : {None}, seek_approval_from : {None, Bo}]

\* the kinds of action the agent is seen to take
Taken == {"support_agent", "propose_policy", "improve_resource"}

BiasInit ==
    /\ \E config \in WorldConfig : state = World(config)
    /\ agents = Personas
    /\ ret = Return("World", TRUE, FALSE, NoEvent)
    /\ calls = 0
    /\ run = NoRun
    /\ seen = NoSeen
    /\ \E persona_archetype \in Archetypes, crisis_level \in Crises,
          emotions \in BiasEmotions, goals \in BiasGoals :
           social = [pc |-> "biases", calls |-> 0,
                     persona_archetype |-> persona_archetype,
                     crisis_level |-> crisis_level, emotions |-> emotions,
                     goals |-> goals, recent_actions |-> <<>>,
                     biases |-> compute_action_biases(persona_archetype, crisis_level,
                                                      emotions, goals)]

\* the agent takes an action, and its table is composed anew
ComposeBiases(action_type) ==
    /\ social.calls < MaxSocialCalls
    /\ LET recent_actions == remember(social.recent_actions, action_type)
       IN  social' = [social EXCEPT
                          !.calls = @ + 1,
                          !.recent_actions = recent_actions,
                          !.biases = apply_repetition_penalty(
                                         compute_action_biases(social.persona_archetype,
                                                               social.crisis_level,
                                                               social.emotions,
                                                               social.goals),
                                         recent_actions)]
    /\ UNCHANGED <<state, agents, ret, calls, run, seen>>

BiasNext == \E action_type \in Taken : ComposeBiases(action_type)

BiasSpec == BiasInit /\ [][BiasNext]_vars

\* the last three actions were the same action
Repeated(action) ==
    /\ Len(social.recent_actions) >= 3
    /\ \A k \in 0..2 : social.recent_actions[Len(social.recent_actions) - k] = action

\* C36: once an action has been taken three times in a row, its weight in
\* the composed table is strictly below the weight of every other action
\* (the penalty touches the repeated action only, so every other action is
\* one whose weight was not penalised).
CE_C36 ==
    \A action \in DOMAIN social.biases :
        Repeated(action) =>
            \A other \in DOMAIN social.biases \ {action} :
                social.biases[action] < social.biases[other]

-----------------------------------------------------------------------------
\* C37: whatever an agent proposes, and whatever the controller's
\* sanitisation leaves of its target, apply_action returns: success or a
\* rejection event, never an exception, and the round goes on with the next
\* agent.
CE_C37 ==
    [][ActsInRun =>
           /\ Applied
           /\ ~ret'.raised
           /\ run'.pc = "for"
           /\ run'.i = run.i + 1]_vars

-----------------------------------------------------------------------------
(* Termination.  run() is one thread of synchronous calls: whenever it has *)
(* a next step it takes it, which is weak fairness of RunNext.             *)

\* RunNext itself: the step of an agent whose proposer fails is one of its
\* steps, and is named first so that ENABLED is settled by the plainest step
RunStep == AgentActs(decide(<<Raised, Raised, Raised>>)) \/ RunNext

\* the runs of up to two rounds in the worlds of WorldConfig
FairTurns == {0, 1, 2}

RunFairInit ==
    /\ RunInit
    /\ state \in {World(config) : config \in WorldConfig}
    /\ run.max_turns \in FairTurns

RunFairSpec == RunFairInit /\ [][RunNext]_vars /\ WF_vars(RunStep)

\* run() has returned, or an exception has left it
Ended == run.pc \in {"exit_max_turns", "break_passes", "break_terminal", "raised"}

\* C38: every run ends, whatever the agents propose; it plays at most
\* max_turns rounds; turn never exceeds max_turns, never decreases, and
\* changes only by +1, in the increment_turn that closes a round.
T_C38 ==
    /\ [](state.turn <= run.max_turns /\ seen.rounds <= run.max_turns)
    /\ [][\/ state'.turn = state.turn
          \/ /\ state'.turn = state.turn + 1
             /\ EndsRound
             /\ run'.pc = "while"
             /\ state' = increment_turn(state)]_vars
    /\ <>Ended

\* a run of two rounds has ended at turn 2 with nobody passing in the last
W_C38 ==
    /\ Ended /\ run.pc = "exit_max_turns"
    /\ run.max_turns = 2 /\ state.turn = 2 /\ seen.rounds = 2
    /\ ~seen.all_pass_now /\ run.consecutive_passes = 0

-----------------------------------------------------------------------------
\* C39: cost_modifiers maps only full names of the agent list, to 0.5 or to
\* 1.5; an accepted support_agent (oppose_agent) by A sets the entry of the
\* resolved agent, who is not A, to 1.5 (0.5) whatever it was before and
\* touches no other entry; and no other call sets or changes an entry, so an
\* agent never holds a modifier of its own making.
T_C39 ==
    /\ [](/\ DOMAIN state.cost_modifiers \subseteq AgentNames
          /\ \A name \in DOMAIN state.cost_modifiers :
                 state.cost_modifiers[name] \in {5, 15})
    /\ [][LET before == state.cost_modifiers
              after == state'.cost_modifiers
          IN  IF Accepted /\ Said.text \in {"supported", "opposed"}
              THEN /\ Said.who \in AgentNames \ {Actor}
                   /\ DOMAIN after = DOMAIN before \cup {Said.who}
                   /\ after[Said.who] = IF Said.text = "supported" THEN 15 ELSE 5
                   /\ \A name \in DOMAIN before \ {Said.who} : after[name] = before[name]
              ELSE \A name \in DOMAIN after :
                       name \in DOMAIN before /\ after[name] = before[name]]_vars

\* Bo was supported twice and then opposed: of the three modifiers only the
\* last is pending
W_C39 ==
    /\ calls = 3
    /\ ret.op = "apply_action" /\ ret.success
    /\ ret.event.message.text = "opposed" /\ ret.event.message.who = Bo
    /\ state.cost_modifiers = (Bo :> 5)
    /\ state.morale = 4 + 5 + 5 - 3

-----------------------------------------------------------------------------
\* the number of messages lying in the agents' inboxes
RECURSIVE Inboxed(_, _)
Inboxed(boxes, k) == IF k = 0 THEN 0 ELSE Len(boxes[k]) + Inboxed(boxes, k - 1)

\* C40: every queued message (each was accepted by apply_action) has an
\* addressee in the agent list, who is not its sender; the delivery at the
\* start of a round does not raise and puts every queued message into an
\* inbox, none being dropped; and no inbox ever holds a message of its owner.
T_C40 ==
    /\ [](\A n \in 1..Len(state.message_queue) :
              LET msg == state.message_queue[n]
              IN  /\ Addressee(msg.recipient) \in 1..Len(agents)
                  /\ agents[Addressee(msg.recipient)] # msg.sender)
    /\ [](\A k \in DOMAIN run.messages_received :
              \A n \in 1..Len(run.messages_received[k]) :
                  run.messages_received[k][n].sender # agents[k])
    /\ [][run.pc = "while" /\ run'.pc # "while" /\ loop_condition(state, run.max_turns) =>
              /\ run'.pc = "for"
              /\ Inboxed(run'.messages_received, Len(agents))
                     = Inboxed(run.messages_received, Len(agents))
                           + Len(state.message_queue)]_vars

\* the second round has begun: the message Bo sent to "al" lies in the inbox
\* of Al X, the first agent of that first name
W_C40 ==
    /\ run.pc = "for" /\ run.i = 1 /\ seen.rounds = 2
    /\ state.message_queue = <<>>
    /\ run.messages_received[1] = <<[sender |-> Bo, content |-> S_hi]>>
    /\ run.messages_received[2] = <<>>

====
